---- MODULE Spec2Model ----
(***************************************************************************)
(* A model of the passmanager storage engine and TOTP engine:               *)
(*   - crypto.Encrypt / crypto.Decrypt        (AES-256-GCM framing)         *)
(*   - crypto.KeyDerivationParams and its (de)serialisation                 *)
(*   - storage.FileRepository Save / Load / LoadParams (container codec     *)
(*     and the write-temp-then-rename protocol)                             *)
(*   - tui.App and service.VaultServiceImpl create / unlock / save          *)
(*   - totp.Config GenerateCodeAt / ValidateAt                              *)
(*                                                                         *)
(* Bytes are integers 0..255 and buffers are sequences of bytes.  The       *)
(* library primitives the repository calls (AES-GCM, Argon2id, HMAC,        *)
(* encoding/json) are modelled as ideal primitives: deterministic,          *)
(* invertible where the library is, and collision free on the inputs the    *)
(* model enumerates.                                                        *)
(***************************************************************************)
EXTENDS Integers, Sequences, FiniteSets, TLC

VARIABLES
    \* ---- cipher harness (crypto.Encrypt / crypto.Decrypt) ----
    cPlain,     \* plaintext handed to Encrypt
    cEncKey,    \* key handed to Encrypt
    cEnc,       \* result of Encrypt
    cBlob,      \* the sealed blob as it reaches Decrypt (possibly altered)
    cMut,       \* how cBlob was altered: "none", "flip", "trunc"
    cDecKey,    \* key handed to Decrypt
    cDec,       \* result of Decrypt
    cPhase,     \* "start", "sealed", "opened", "rejected"
    cBadErrs    \* errors Decrypt has reported for bad inputs under a 32-byte key

VARIABLES
    \* ---- container harness (FileRepository Save / Load / LoadParams codec) ----
    kParams,    \* KDF parameter record handed to Save
    kCipher,    \* encrypted blob Save appends
    kFile,      \* bytes of the vault file
    kAlt,       \* how kFile was altered after Save: "none", "version", "magic"
    kLoad,      \* what Load decoded from kFile
    kPeek,      \* what LoadParams decoded from kFile
    kPhase      \* "start", "written", "read"

VARIABLES
    \* ---- the vault file and the process that works on it ----
    disk,           \* the files at path and at path + ".tmp"
    impl,           \* front end of the running process: "app" (tui.App) or "svc" (VaultServiceImpl)
    currentScreen,  \* App.currentScreen
    masterKey,      \* App.masterKey / VaultServiceImpl.masterKey
    vault,          \* App.vault / the vault the caller of the service holds
    lastErr,        \* error of the last handler or service call that returned
    pc,             \* position inside FileRepository.Save, "idle" outside of it
    job,            \* the Save call in progress
    rng,            \* number of values drawn from crypto/rand so far
    now,            \* the wall clock
    idSeq,          \* number of identifiers generateID has handed out
    sessionPw,      \* history: the password masterKey was derived from
    onDisk,         \* history: password and vault the file at path was written from
    unlock,         \* history: the last unlock call and what it did
    locked          \* history: LockVault has returned, and no CreateVault or UnlockVault has returned nil since

VARIABLES
    \* ---- TOTP harness (totp.Config GenerateCodeAt / ValidateAt) ----
    tCfg,       \* the Config: Secret, Period in whole seconds, Digits, Algorithm
    tConv,      \* what this build's out-of-range float64 to uint32 conversion does
    tAt,        \* Unix time handed to GenerateCodeAt
    tGen,       \* result of GenerateCodeAt
    tChk,       \* the last ValidateAt call: code, time and result
    tPhase      \* "start", "generated", "validated"

VARIABLES
    \* ---- otpauth URI harness (totp.ParseURI / Config.ToURI) ----
    uCfg,       \* the Config handed to ToURI
    uRaw,       \* the parts a hand-written URI was put together from
    uUri,       \* the URI: ToURI's result or the hand-written text
    uOut,       \* result of ParseURI(uUri)
    uUse,       \* what was called on the parsed Config and whether it panicked
    uPhase      \* "config", "uri", "parsed", "used"

VARIABLES
    \* ---- session harness (tui.App.Update and VaultServiceImpl on the master key) ----
    gFront,     \* front end: "app" (tui.App) or "svc" (VaultServiceImpl)
    gApp,       \* the App: screens, login screen state, auto-locker
    gKey,       \* App.masterKey / VaultServiceImpl.masterKey: 0 is nil, else a buffer of gHeap
    gHeap,      \* the key buffers DeriveKey has returned, and whether the session held them
    gFile,      \* the vault file: whether it exists and the key it is sealed with
    gInbox,     \* messages of commands that have not reached App.Update yet
    gClock,     \* the wall clock
    gLastInput, \* history: the clock at the last key press
    gTimeout,   \* config.Security.AutoLockTimeout
    gSalts,     \* number of salts drawn from crypto/rand
    gOverwrote  \* history: createVault has written over an existing vault file

VARIABLES
    \* ---- entries harness (entity.Vault AddEntry / RemoveEntry and the save-entry flow) ----
    eVault,     \* the vault
    eHeld,      \* the entries NewEntry has returned to a caller
    eSeq,       \* number of identifiers generateID has handed out
    ePhase      \* "open" while the vault is in use

VARIABLES
    \* ---- clipboard harness (clipboard.Manager CopyWithTimeout / Clear) ----
    bText,      \* the text on the system clipboard
    bTimeout,   \* Manager.timeout in seconds
    bTimer,     \* Manager.timer: 0 is nil, else a timer of bTimers
    bTimers,    \* the timers time.AfterFunc has created: deadline and state
    bClock,     \* the wall clock
    bLast       \* history: the last call that returned, and the text and time of the last copy

VARIABLES
    \* ---- reader harness (FileRepository.Load on well-formed and damaged files) ----
    lFile,      \* the bytes os.ReadFile returns
    lInt,       \* the width of int in the build: 32 or 64
    lOut,       \* what Load returned and whether it called crypto.Decrypt
    lPhase      \* "ready", "loaded"; "parked" when the harness is not in use

VARIABLES
    \* ---- buffer harness (plaintext buffers of FileRepository.Save and Load) ----
    zIn,        \* the call's inputs: vault bytes, key, what crypto/rand and the file system do
    zSave,      \* Save's error and its vaultJSON buffer at the return
    zLoad,      \* Load's error and its decrypted buffer at the return
    zPhase      \* "ready", "saved", "loaded"; "parked" when the harness is not in use

VARIABLES
    \* ---- unlock harness (App.unlockVault on vault files of any origin) ----
    xFile,      \* the vault file
    xPw,        \* the password typed
    xOut,       \* what unlockVault did: its error, the length of the key it derived
    xPhase      \* "ready", "done"; "parked" when the harness is not in use

VARIABLES
    \* ---- auto-lock harness (infrastructure.AutoLocker Start / Stop / Reset) ----
    wTimeout,   \* AutoLocker.timeout in seconds
    wRunning,   \* AutoLocker.running
    wLast,      \* AutoLocker.lastActivity
    wTicker,    \* AutoLocker.ticker: 0 is nil, else a ticker of wTickers
    wTickers,   \* the tickers time.NewTicker has made: running or not, a tick in the channel or not
    wCmds,      \* the commands Start has returned, each run by its own goroutine
    wClock,     \* the wall clock; -1 when the harness is not in use
    wStops      \* history: number of Stop calls that have returned

VARIABLES
    \* ---- form harness (LoginScreen new-vault form, EntryEditorScreen.saveEntry) ----
    fScreen,    \* App.currentScreen: "login", "editor", "list"
    fLogin,     \* the LoginScreen: isNewVault, step, the two inputs, error
    fEditor,    \* the EntryEditorScreen: isNew and the name input
    fEntry,     \* the entry the editor edits (s.entry): its name and the number of its updates
    fVault,     \* the names of the entries of the vault in memory
    fFile,      \* the vault file: <<>> while there is none, else the password it was created under
    fMsg,       \* the message the last submit's command hands to App.Update, "none" if none
    fBefore     \* history: the last submit, its inputs and the state it found

VARIABLES
    \* ---- vault harness (entity.Vault mutations and their timestamps) ----
    mVault,     \* the Vault: entries with AccessedAt, folders, CreatedAt, UpdatedAt
    mClock,     \* what time.Now() returns: the wall clock, which the system may set back
    mLast       \* history: the last call, its result, the vault it found and the time

VARIABLES
    \* ---- login harness (tui.App unlockVault, errMsg and View) ----
    vApp,       \* the App: currentScreen, masterKey, vault, vaultList, err
    vFile,      \* the vault file: "sealed", "damaged" or "unreadable"
    vInbox,     \* errMsg values of commands that have not reached App.Update yet
    vTries,     \* number of unlockVault calls so far
    vLast       \* history: the last unlockVault call, its password and whether it unlocked

VARIABLES
    \* ---- tick harness (EntryDetailScreen Init / tickMsg under App.Update's routing) ----
    dApp,       \* the App: currentScreen, previousScreen, the second the shown TOTP code was computed at
    dSecret,    \* whether the entry has a TOTP secret
    dPending,   \* tick commands waiting on a ticker that has not ticked yet
    dDue,       \* tick commands whose ticker has ticked: their tickMsg has not reached App.Update yet
    dInbox,     \* messages of key commands that have not reached App.Update yet
    dClock,     \* seconds since the program started
    dLost       \* history: number of tickMsg the editor screen has received

cipherVars == <<cPlain, cEncKey, cEnc, cBlob, cMut, cDecKey, cDec, cPhase, cBadErrs>>
containerVars == <<kParams, kCipher, kFile, kAlt, kLoad, kPeek, kPhase>>

sysVars == <<disk, impl, currentScreen, masterKey, vault, lastErr, pc, job, rng, now,
             idSeq, sessionPw, onDisk, unlock, locked>>

totpVars == <<tCfg, tConv, tAt, tGen, tChk, tPhase>>

uriVars == <<uCfg, uRaw, uUri, uOut, uUse, uPhase>>

tuiVars == <<gFront, gApp, gKey, gHeap, gFile, gInbox, gClock, gLastInput, gTimeout, gSalts, gOverwrote>>

entVars == <<eVault, eHeld, eSeq, ePhase>>

clipVars == <<bText, bTimeout, bTimer, bTimers, bClock, bLast>>

readerVars == <<lFile, lInt, lOut, lPhase>>

bufVars == <<zIn, zSave, zLoad, zPhase>>

unlVars == <<xFile, xPw, xOut, xPhase>>

watVars == <<wTimeout, wRunning, wLast, wTicker, wTickers, wCmds, wClock, wStops>>

frmVars == <<fScreen, fLogin, fEditor, fEntry, fVault, fFile, fMsg, fBefore>>

mutVars == <<mVault, mClock, mLast>>

viewVars == <<vApp, vFile, vInbox, vTries, vLast>>

tickVars == <<dApp, dSecret, dPending, dDue, dInbox, dClock, dLost>>

vars == <<cipherVars, containerVars, sysVars, totpVars, uriVars, tuiVars, entVars, clipVars, readerVars, bufVars, unlVars, watVars, frmVars, mutVars, viewVars, tickVars>>

\* the variables each harness leaves alone
notCipher == <<containerVars, sysVars, totpVars, uriVars, tuiVars, entVars, clipVars, readerVars, bufVars, unlVars, watVars, frmVars, mutVars, viewVars, tickVars>>
notContainer == <<cipherVars, sysVars, totpVars, uriVars, tuiVars, entVars, clipVars, readerVars, bufVars, unlVars, watVars, frmVars, mutVars, viewVars, tickVars>>
notSys == <<cipherVars, containerVars, totpVars, uriVars, tuiVars, entVars, clipVars, readerVars, bufVars, unlVars, watVars, frmVars, mutVars, viewVars, tickVars>>
notTotp == <<cipherVars, containerVars, sysVars, uriVars, tuiVars, entVars, clipVars, readerVars, bufVars, unlVars, watVars, frmVars, mutVars, viewVars, tickVars>>
notUri == <<cipherVars, containerVars, sysVars, totpVars, tuiVars, entVars, clipVars, readerVars, bufVars, unlVars, watVars, frmVars, mutVars, viewVars, tickVars>>
notTui == <<cipherVars, containerVars, sysVars, totpVars, uriVars, entVars, clipVars, readerVars, bufVars, unlVars, watVars, frmVars, mutVars, viewVars, tickVars>>
notEnt == <<cipherVars, containerVars, sysVars, totpVars, uriVars, tuiVars, clipVars, readerVars, bufVars, unlVars, watVars, frmVars, mutVars, viewVars, tickVars>>
notClip == <<cipherVars, containerVars, sysVars, totpVars, uriVars, tuiVars, entVars, readerVars, bufVars, unlVars, watVars, frmVars, mutVars, viewVars, tickVars>>
notReader == <<cipherVars, containerVars, sysVars, totpVars, uriVars, tuiVars, entVars, clipVars, bufVars, unlVars, watVars, frmVars, mutVars, viewVars, tickVars>>
notBuf == <<cipherVars, containerVars, sysVars, totpVars, uriVars, tuiVars, entVars, clipVars, readerVars, unlVars, watVars, frmVars, mutVars, viewVars, tickVars>>
notUnl == <<cipherVars, containerVars, sysVars, totpVars, uriVars, tuiVars, entVars, clipVars, readerVars, bufVars, watVars, frmVars, mutVars, viewVars, tickVars>>
notWat == <<cipherVars, containerVars, sysVars, totpVars, uriVars, tuiVars, entVars, clipVars, readerVars, bufVars, unlVars, frmVars, mutVars, viewVars, tickVars>>
notFrm == <<cipherVars, containerVars, sysVars, totpVars, uriVars, tuiVars, entVars, clipVars, readerVars, bufVars, unlVars, watVars, mutVars, viewVars, tickVars>>
notMut == <<cipherVars, containerVars, sysVars, totpVars, uriVars, tuiVars, entVars, clipVars, readerVars, bufVars, unlVars, watVars, frmVars, viewVars, tickVars>>
notView == <<cipherVars, containerVars, sysVars, totpVars, uriVars, tuiVars, entVars, clipVars, readerVars, bufVars, unlVars, watVars, frmVars, mutVars, tickVars>>
notTick == <<cipherVars, containerVars, sysVars, totpVars, uriVars, tuiVars, entVars, clipVars, readerVars, bufVars, unlVars, watVars, frmVars, mutVars, viewVars>>

----------------------------------------------------------------------------
(* Bounds of the model *)

\* longest plaintext handed to Encrypt
MaxPlain == 2
\* number of distinct values the random source hands out
MaxRand == 2
\* longest encrypted blob the container harness stores
MaxBlob == 2
\* values the process may draw from crypto/rand over a run
MaxDraws == 3
\* entries a vault may hold
MaxEntries == 2
\* last reading of the wall clock
MaxTime == 1
\* latest Unix time a code is generated for
MaxUnix == 100
\* most periods between generating a code and validating it
MaxSteps == 2
\* longest issuer handed to ToURI
MaxLabel == 2
\* messages of commands that may be pending at once
MaxInbox == 1
\* key buffers a session may derive
MaxKeys == 2
\* last reading of the session clock and of the clipboard clock
MaxClock == 1
\* copies to the clipboard
MaxCopies == 3
MaxStarts == 2
MaxStops == 3
MaxTicks == 2
MaxWall == 1
MaxFolders == 1
MaxTries == 3
MaxPending == 3
MaxSeconds == 2

----------------------------------------------------------------------------
(* Bytes and buffers *)

Byte == 0..255

RECURSIVE XorBits(_, _, _)
XorBits(a, b, n) ==
    IF n = 0 THEN 0
    ELSE (((a % 2) + (b % 2)) % 2) + 2 * XorBits(a \div 2, b \div 2, n - 1)

\* a ^ b on bytes
Xor(a, b) == XorBits(a, b, 8)

RECURSIVE Pow2(_)
Pow2(n) == IF n = 0 THEN 1 ELSE 2 * Pow2(n - 1)

\* buf[i] ^= 1 << bit
FlipBit(buf, i, bit) == [buf EXCEPT ![i] = Xor(buf[i], Pow2(bit))]

\* make([]byte, n) filled with b
Fill(n, b) == [i \in 1..n |-> b]

\* buf[:n]
Take(buf, n) == SubSeq(buf, 1, n)

\* buf[n:]
Drop(buf, n) == SubSeq(buf, n + 1, Len(buf))

RECURSIVE SumEvery(_, _, _)
\* sum of buf[i], buf[i+step], ... modulo 256
SumEvery(buf, i, step) ==
    IF i > Len(buf) THEN 0
    ELSE (buf[i] + SumEvery(buf, i + step, step)) % 256

RECURSIVE PolyHash(_, _, _)
\* a 16-bit digest of buf[1..n]
PolyHash(buf, n, mult) ==
    IF n = 0 THEN 1
    ELSE ((PolyHash(buf, n - 1, mult) * mult) + buf[n] + 1) % 65521

RECURSIVE RangeHash(_, _, _, _)
\* a 16-bit digest of buf[lo..hi]
RangeHash(buf, lo, hi, mult) ==
    IF hi < lo THEN 1
    ELSE ((RangeHash(buf, lo, hi - 1, mult) * mult) + buf[hi] + 1) % 65521

\* the smaller of two numbers
Min(a, b) == IF a < b THEN a ELSE b

RECURSIVE BlockHash(_, _, _)
\* a 16-bit digest of buf[from..]: the digests of its 8-byte blocks and its
\* length, the last block first, folded into one
BlockHash(buf, from, mult) ==
    IF from > Len(buf) THEN 1
    ELSE ((BlockHash(buf, from + 8, mult) * 251)
          + RangeHash(buf, from, Min(from + 7, Len(buf)), mult)
          + Len(buf)) % 65521

\* a four-byte digest of a buffer
Fold4(buf) ==
    LET h1 == BlockHash(buf, 1, 31)
        h2 == BlockHash(buf, 1, 257)
    IN  <<h1 \div 256, h1 % 256, h2 \div 256, h2 % 256>>

\* all byte strings over alphabet of length at most n
RECURSIVE SeqsUpTo(_, _)
SeqsUpTo(alphabet, n) ==
    IF n = 0 THEN {<<>>}
    ELSE LET shorter == SeqsUpTo(alphabet, n - 1)
         IN  shorter \cup {Append(s, a) : s \in {t \in shorter : Len(t) = n - 1}, a \in alphabet}

----------------------------------------------------------------------------
(* crypto.Encrypt / crypto.Decrypt *)

KeySize == 32
NonceSize == 12
TagSize == 16

NoErr == "nil"
ErrInvalidKeySize == "invalid key size"
ErrNonce == "failed to generate nonce"
ErrTooShort == "ciphertext too short"
ErrDecryptionFailed == "decryption failed"

\* the value io.ReadFull(rand.Reader, ...) yields when the source fails
RandFail == <<-1>>

\* AES-CTR keystream byte i under (key, nonce)
KeyStream(key, nonce, i) ==
    ((SumEvery(key, 1, 1) * 3) + (SumEvery(nonce, 1, 1) * 5) + (7 * i) + 1) % 256

\* the 16-byte GCM authentication tag of ct under (key, nonce)
GcmTag(key, nonce, ct) ==
    LET kf == Fold4(key)
        nf == Fold4(nonce)
        cf == Fold4(ct)
    IN  kf
        \o [j \in 1..4 |-> (kf[j] + nf[j]) % 256]
        \o [j \in 1..4 |-> (kf[j] + nf[j] + cf[j]) % 256]
        \o <<Len(ct) % 256, (kf[1] + kf[2] + kf[3] + kf[4] + 1) % 256, 0, 0>>

\* gcm.Seal(nil, nonce, plaintext, nil)
GcmSeal(key, nonce, plaintext) ==
    LET ct == [i \in 1..Len(plaintext) |-> Xor(plaintext[i], KeyStream(key, nonce, i))]
    IN  ct \o GcmTag(key, nonce, ct)

\* gcm.Open(nil, nonce, ciphertext, nil)
GcmOpen(key, nonce, data) ==
    IF Len(data) < TagSize
    THEN [ok |-> FALSE, out |-> <<>>]
    ELSE LET ct  == Take(data, Len(data) - TagSize)
             tag == Drop(data, Len(data) - TagSize)
         IN  IF tag = GcmTag(key, nonce, ct)
             THEN [ok |-> TRUE,
                   out |-> [i \in 1..Len(ct) |-> Xor(ct[i], KeyStream(key, nonce, i))]]
             ELSE [ok |-> FALSE, out |-> <<>>]

\* Encrypt that returns the sealed data without the nonce in front
EncryptNoNonce(plaintext, key, rnd) ==
    IF Len(key) # KeySize
    THEN [err |-> ErrInvalidKeySize, out |-> <<>>, calls |-> <<>>]
    ELSE IF rnd = RandFail
    THEN [err |-> ErrNonce, out |-> <<>>,
          calls |-> <<"aes.NewCipher", "cipher.NewGCM", "rand.Reader">>]
    ELSE [err |-> NoErr, out |-> GcmSeal(key, rnd, plaintext),
          calls |-> <<"aes.NewCipher", "cipher.NewGCM", "rand.Reader", "gcm.Seal">>]

\* Encrypt(plaintext, key); rnd is what rand.Reader yields for the nonce.
\* calls lists the primitives the call reached, in order.
Encrypt(plaintext, key, rnd) ==
    IF Len(key) # KeySize
    THEN [err |-> ErrInvalidKeySize, out |-> <<>>, calls |-> <<>>]
    ELSE IF rnd = RandFail
    THEN [err |-> ErrNonce, out |-> <<>>,
          calls |-> <<"aes.NewCipher", "cipher.NewGCM", "rand.Reader">>]
    ELSE [err |-> NoErr, out |-> rnd \o GcmSeal(key, rnd, plaintext),
          calls |-> <<"aes.NewCipher", "cipher.NewGCM", "rand.Reader", "gcm.Seal">>]

\* Decrypt whose length check reads len(encrypted) <= nonceSize
DecryptOffByOne(encrypted, key) ==
    IF Len(key) # KeySize
    THEN [err |-> ErrInvalidKeySize, out |-> <<>>, calls |-> <<>>]
    ELSE IF Len(encrypted) <= NonceSize
    THEN [err |-> ErrTooShort, out |-> <<>>,
          calls |-> <<"aes.NewCipher", "cipher.NewGCM">>]
    ELSE LET opened == GcmOpen(key, Take(encrypted, NonceSize), Drop(encrypted, NonceSize))
         IN  IF opened.ok
             THEN [err |-> NoErr, out |-> opened.out,
                   calls |-> <<"aes.NewCipher", "cipher.NewGCM", "gcm.Open">>]
             ELSE [err |-> ErrDecryptionFailed, out |-> <<>>,
                   calls |-> <<"aes.NewCipher", "cipher.NewGCM", "gcm.Open">>]

\* Decrypt that looks at the length of the data before the length of the key
DecryptLengthFirst(encrypted, key) ==
    IF Len(encrypted) < NonceSize
    THEN [err |-> ErrTooShort, out |-> <<>>, calls |-> <<>>]
    ELSE IF Len(key) # KeySize
    THEN [err |-> ErrInvalidKeySize, out |-> <<>>, calls |-> <<>>]
    ELSE LET opened == GcmOpen(key, Take(encrypted, NonceSize), Drop(encrypted, NonceSize))
         IN  IF opened.ok
             THEN [err |-> NoErr, out |-> opened.out,
                   calls |-> <<"aes.NewCipher", "cipher.NewGCM", "gcm.Open">>]
             ELSE [err |-> ErrDecryptionFailed, out |-> <<>>,
                   calls |-> <<"aes.NewCipher", "cipher.NewGCM", "gcm.Open">>]

\* Decrypt(encrypted, key)
Decrypt(encrypted, key) ==
    IF Len(key) # KeySize
    THEN [err |-> ErrInvalidKeySize, out |-> <<>>, calls |-> <<>>]
    ELSE IF Len(encrypted) < NonceSize
    THEN [err |-> ErrTooShort, out |-> <<>>,
          calls |-> <<"aes.NewCipher", "cipher.NewGCM">>]
    ELSE LET opened == GcmOpen(key, Take(encrypted, NonceSize), Drop(encrypted, NonceSize))
         IN  IF opened.ok
             THEN [err |-> NoErr, out |-> opened.out,
                   calls |-> <<"aes.NewCipher", "cipher.NewGCM", "gcm.Open">>]
             ELSE [err |-> ErrDecryptionFailed, out |-> <<>>,
                   calls |-> <<"aes.NewCipher", "cipher.NewGCM", "gcm.Open">>]

----------------------------------------------------------------------------
(* crypto.KeyDerivationParams *)

\* the n-th value the random source hands out, as a buffer of size bytes
RandBytes(n, size) == [i \in 1..size |-> ((n * 37) + (i * 11)) % 256]

SaltSize == 32

\* "argon2id"
Argon2id == <<97, 114, 103, 111, 110, 50, 105, 100>>

ErrSalt == "failed to generate salt"
ErrUnmarshalParams == "failed to unmarshal params"

NoParams ==
    [algorithm |-> <<>>, iterations |-> 0, memory |-> 0, parallelism |-> 0,
     salt |-> <<>>, keyLength |-> 0]

\* DefaultKeyDerivationParams(); rnd is what rand.Read yields for the salt
DefaultKeyDerivationParams(rnd) ==
    IF rnd = RandFail
    THEN [err |-> ErrSalt, params |-> NoParams]
    ELSE [err |-> NoErr,
          params |-> [algorithm |-> Argon2id, iterations |-> 3, memory |-> 64 * 1024,
                      parallelism |-> 4, salt |-> rnd, keyLength |-> 32]]

\* uint32 as four bytes, least significant first
LE32(n) == <<n % 256, (n \div 256) % 256, (n \div 65536) % 256, (n \div 16777216) % 256>>

\* uint32 as four bytes, most significant first
BE32(n) == <<(n \div 16777216) % 256, (n \div 65536) % 256, (n \div 256) % 256, n % 256>>

\* the uint32 whose little-endian bytes are b[1..4]
ReadLE32(b) == b[1] + (256 * b[2]) + (65536 * b[3]) + (16777216 * b[4])

\* DeriveKey(masterPassword, params): argon2.IDKey, a key of params.KeyLength
\* bytes that depends on the password, the salt and the three cost parameters
DeriveKey(password, params) ==
    LET pw   == Fold4(password)
        sl   == Fold4(params.salt)
        cost == Fold4(LE32(params.iterations) \o LE32(params.memory) \o <<params.parallelism>>)
        seed == Fold4(pw \o sl \o cost \o LE32(params.keyLength))
    IN  [i \in 1..params.keyLength |->
            (seed[((i - 1) % 4) + 1] + (pw[((i - 1) % 4) + 1] * 3)
                + (sl[((i - 1) % 4) + 1] * 5) + (i * 7)) % 256]

\* json.Marshal of the record: every field, self-delimiting
MarshalParams(params) ==
    <<Len(params.algorithm)>> \o params.algorithm
        \o LE32(params.iterations)
        \o LE32(params.memory)
        \o <<params.parallelism>>
        \o <<Len(params.salt)>> \o params.salt
        \o LE32(params.keyLength)

\* json.Unmarshal into the record; fails on bytes that are no such record
UnmarshalParams(data) ==
    LET bad == [err |-> ErrUnmarshalParams, params |-> NoParams]
    IN  IF Len(data) < 1 THEN bad
        ELSE LET alen == data[1]
             IN  IF Len(data) < 1 + alen + 4 + 4 + 1 + 1 THEN bad
                 ELSE LET rest == Drop(data, 1 + alen)
                          slen == rest[10]
                      IN  IF Len(rest) # 10 + slen + 4 \/ rest[4] > 127 \/ rest[8] > 127
                             \/ rest[Len(rest)] > 127
                          THEN bad
                          ELSE [err |-> NoErr,
                                params |->
                                  [algorithm |-> SubSeq(data, 2, 1 + alen),
                                   iterations |-> ReadLE32(SubSeq(rest, 1, 4)),
                                   memory |-> ReadLE32(SubSeq(rest, 5, 8)),
                                   parallelism |-> rest[9],
                                   salt |-> SubSeq(rest, 11, 10 + slen),
                                   keyLength |-> ReadLE32(SubSeq(rest, 11 + slen, 14 + slen))]]

----------------------------------------------------------------------------
(* storage.FileRepository: the container codec *)

\* "PMVAULT1"
VaultHeader == <<80, 77, 86, 65, 85, 76, 84, 49>>
VaultVersion == 1

ErrTooSmall == "vault file corrupted: too small"
ErrWrongHeader == "invalid vault file: wrong header"
ErrVersion == "unsupported vault version"
ErrParamsShort == "vault file corrupted: params too short"
ErrSliceBounds == "panic: runtime error: slice bounds out of range"

\* Save that writes the parameter length most significant byte first
EncodeContainerBigEndian(paramsJSON, encrypted) ==
    VaultHeader \o LE32(VaultVersion) \o BE32(Len(paramsJSON)) \o paramsJSON \o encrypted

\* Save, the file buffer: header, version, parameter length, parameters, data
EncodeContainer(paramsJSON, encrypted) ==
    VaultHeader \o LE32(VaultVersion) \o LE32(Len(paramsJSON)) \o paramsJSON \o encrypted

NoSplit == [err |-> "none", paramsJSON |-> <<>>, payload |-> <<>>]

\* the width of int on the platform the program is built for
IntSizes == {32, 64}

\* the low three bytes of a little-endian uint32
Low24(b) == b[1] + (256 * b[2]) + (65536 * b[3])

\* int(paramsLen) < 0: int(x) of a uint32 keeps the low intSize bits, so with a
\* 32-bit int every length of 2^31 and more becomes negative
IntNegative(b, intSize) == intSize = 32 /\ b[4] >= 128

\* len(data) < int(paramsLen), n = len(data) and b the four bytes of paramsLen
LenBelowInt(n, b, intSize) ==
    /\ ~IntNegative(b, intSize)
    /\ (b[4] # 0 \/ n < Low24(b))

\* the bounds check of data[:paramsLen]: the index is compared as a uint32
SliceInRange(n, b) == b[4] = 0 /\ Low24(b) <= n

\* Load, from the size check to the split into parameter bytes and payload,
\* where int has intSize bits
LoadSplitInt(data, intSize) ==
    LET fail(e) == [err |-> e, paramsJSON |-> <<>>, payload |-> <<>>]
        minSize == Len(VaultHeader) + 4 + 4
    IN  IF Len(data) < minSize THEN fail(ErrTooSmall)
        ELSE IF Take(data, Len(VaultHeader)) # VaultHeader THEN fail(ErrWrongHeader)
        ELSE LET d1 == Drop(data, Len(VaultHeader))
                 version == ReadLE32(Take(d1, 4))
                 d2 == Drop(d1, 4)
             IN  IF version # VaultVersion THEN fail(ErrVersion)
                 ELSE LET paramsLen == Take(d2, 4)
                          d3 == Drop(d2, 4)
                      IN  IF LenBelowInt(Len(d3), paramsLen, intSize)
                          THEN fail(ErrParamsShort)
                          ELSE IF ~SliceInRange(Len(d3), paramsLen)
                          THEN fail(ErrSliceBounds)
                          ELSE [err |-> NoErr,
                                paramsJSON |-> Take(d3, Low24(paramsLen)),
                                payload |-> Drop(d3, Low24(paramsLen))]

\* Load's split on the platforms the Makefile builds for (amd64, arm64)
LoadSplit(data) == LoadSplitInt(data, 64)

\* LoadParams on the bytes of the file
LoadParamsBytes(data) ==
    LET minSize == Len(VaultHeader) + 4 + 4
    IN  IF Len(data) < minSize THEN [err |-> ErrTooSmall, params |-> NoParams]
        ELSE LET d1 == Drop(data, Len(VaultHeader))
                 d2 == Drop(d1, 4)
                 paramsLen == ReadLE32(Take(d2, 4))
                 d3 == Drop(d2, 4)
             IN  IF Len(d3) < paramsLen THEN [err |-> ErrParamsShort, params |-> NoParams]
                 ELSE UnmarshalParams(Take(d3, paramsLen))

----------------------------------------------------------------------------
(* entity.Vault and its JSON form *)

\* "1.0"
VaultSchema == <<49, 46, 48>>

EntryTypeLogin == 0
EntryTypeSecureNote == 1

NoVault == [version |-> <<>>, entries |-> <<-1>>, createdAt |-> 0, updatedAt |-> 0]

\* NewVault()
NewVault(t) == [version |-> VaultSchema, entries |-> <<>>, createdAt |-> t, updatedAt |-> t]

\* Vault.AddEntry(entry)
AddEntry(v, entry, t) == [v EXCEPT !.entries = Append(v.entries, entry), !.updatedAt = t]

\* Vault.RemoveEntry(id): the first entry with that ID is cut out
RemoveEntry(v, id, t) ==
    IF \E i \in 1..Len(v.entries) : v.entries[i].id = id
    THEN LET i == CHOOSE k \in 1..Len(v.entries) :
                    /\ v.entries[k].id = id
                    /\ \A j \in 1..(k - 1) : v.entries[j].id # id
         IN  [v EXCEPT !.entries = SubSeq(v.entries, 1, i - 1)
                                    \o SubSeq(v.entries, i + 1, Len(v.entries)),
                       !.updatedAt = t]
    ELSE v

\* Vault.Update()
Update(v, t) == [v EXCEPT !.updatedAt = t]

\* generateID(): an identifier no earlier call has returned
GenerateID(n) == <<105, 100, 48 + n>>

\* NewEntry(entryType, name), with the fields the editor fills in
NewEntry(id, entryType, name, username, password, t) ==
    [id |-> id, type |-> entryType, name |-> name, username |-> username,
     password |-> password, createdAt |-> t, updatedAt |-> t]

\* a string: its length, then its bytes
EncStr(str) == <<Len(str)>> \o str

\* json.Marshal of an Entry; username and password are omitempty
MarshalEntry(e) ==
    EncStr(e.id) \o <<e.type>> \o EncStr(e.name)
        \o (IF e.username = <<>> THEN <<>> ELSE <<1>> \o EncStr(e.username))
        \o (IF e.password = <<>> THEN <<>> ELSE <<2>> \o EncStr(e.password))
        \o <<0, e.createdAt, e.updatedAt>>

RECURSIVE MarshalEntries(_)
MarshalEntries(entries) ==
    IF entries = <<>> THEN <<>>
    ELSE MarshalEntry(Head(entries)) \o MarshalEntries(Tail(entries))

\* json.Marshal(vault)
MarshalVault(v) ==
    EncStr(v.version) \o <<Len(v.entries)>> \o MarshalEntries(v.entries)
        \o <<v.createdAt, v.updatedAt>>

NoRead == [ok |-> FALSE, val |-> <<>>, rest |-> <<>>]

\* decode one string
ReadStr(d) ==
    IF Len(d) < 1 THEN NoRead
    ELSE IF Len(d) < 1 + d[1] THEN NoRead
    ELSE [ok |-> TRUE, val |-> SubSeq(d, 2, 1 + d[1]), rest |-> Drop(d, 1 + d[1])]

\* decode an optional string field carrying the given tag
ReadOpt(d, tag) ==
    IF Len(d) >= 1 /\ d[1] = tag
    THEN ReadStr(Tail(d))
    ELSE [ok |-> TRUE, val |-> <<>>, rest |-> d]

\* decode one Entry
ReadEntry(d) ==
    LET id == ReadStr(d)
    IN  IF ~id.ok \/ Len(id.rest) < 1 THEN NoRead
        ELSE LET name == ReadStr(Tail(id.rest))
             IN  IF ~name.ok THEN NoRead
                 ELSE LET user == ReadOpt(name.rest, 1)
                      IN  IF ~user.ok THEN NoRead
                          ELSE LET pass == ReadOpt(user.rest, 2)
                               IN  IF ~pass.ok \/ Len(pass.rest) < 3 THEN NoRead
                                   ELSE IF pass.rest[1] # 0 THEN NoRead
                                   ELSE [ok |-> TRUE,
                                         val |-> [id |-> id.val, type |-> id.rest[1],
                                                  name |-> name.val, username |-> user.val,
                                                  password |-> pass.val,
                                                  createdAt |-> pass.rest[2],
                                                  updatedAt |-> pass.rest[3]],
                                         rest |-> Drop(pass.rest, 3)]

RECURSIVE ReadEntries(_, _)
\* decode n entries
ReadEntries(d, n) ==
    IF n = 0 THEN [ok |-> TRUE, val |-> <<>>, rest |-> d]
    ELSE LET first == ReadEntry(d)
         IN  IF ~first.ok THEN NoRead
             ELSE LET others == ReadEntries(first.rest, n - 1)
                  IN  IF ~others.ok THEN NoRead
                      ELSE [ok |-> TRUE, val |-> <<first.val>> \o others.val,
                            rest |-> others.rest]

ErrUnmarshalVault == "failed to unmarshal vault"

\* json.Unmarshal(decrypted, vault)
UnmarshalVault(d) ==
    LET bad == [err |-> ErrUnmarshalVault, vault |-> NoVault]
        ver == ReadStr(d)
    IN  IF ~ver.ok \/ Len(ver.rest) < 1 THEN bad
        ELSE LET entries == ReadEntries(Tail(ver.rest), ver.rest[1])
             IN  IF ~entries.ok \/ Len(entries.rest) # 2 THEN bad
                 ELSE [err |-> NoErr,
                       vault |-> [version |-> ver.val, entries |-> entries.val,
                                  createdAt |-> entries.rest[1],
                                  updatedAt |-> entries.rest[2]]]

----------------------------------------------------------------------------
(* storage.FileRepository on the file system *)

NoFile == [exists |-> FALSE, data |-> <<>>]
File(data) == [exists |-> TRUE, data |-> data]

ErrRead == "failed to read vault file"
ErrEncrypt == "failed to encrypt vault"
ErrWriteTemp == "failed to write temp file"
ErrRename == "failed to rename file"
ErrVaultLocked == "Vault is locked"

\* a Save that writes newly generated parameters in place of the ones it is handed
SaveBufferFreshParams(v, key, kdfParams, rnd) ==
    LET encrypted == Encrypt(MarshalVault(v), key, rnd)
        fresh == DefaultKeyDerivationParams(rnd).params
    IN  IF encrypted.err # NoErr
        THEN [err |-> ErrEncrypt, buf |-> <<>>]
        ELSE [err |-> NoErr, buf |-> EncodeContainer(MarshalParams(fresh), encrypted.out)]

\* Save, from json.Marshal(vault) to the complete file buffer
SaveBuffer(v, key, kdfParams, rnd) ==
    LET encrypted == Encrypt(MarshalVault(v), key, rnd)
    IN  IF encrypted.err # NoErr
        THEN [err |-> ErrEncrypt, buf |-> <<>>]
        ELSE [err |-> NoErr, buf |-> EncodeContainer(MarshalParams(kdfParams), encrypted.out)]

\* Load(key)
Load(file, key) ==
    LET fail(e) == [err |-> e, vault |-> NoVault]
    IN  IF ~file.exists THEN fail(ErrRead)
        ELSE LET split == LoadSplit(file.data)
             IN  IF split.err # NoErr THEN fail(split.err)
                 ELSE IF UnmarshalParams(split.paramsJSON).err # NoErr
                 THEN fail(ErrUnmarshalParams)
                 ELSE LET decrypted == Decrypt(split.payload, key)
                      IN  IF decrypted.err # NoErr THEN fail(decrypted.err)
                          ELSE UnmarshalVault(decrypted.out)

\* Load(key) on the bytes of the file where int has intSize bits: the error it
\* returns and whether it reached the call of crypto.Decrypt
LoadChecked(data, key, intSize) ==
    IF LoadSplitInt(data, intSize).err # NoErr
    THEN [err |-> LoadSplitInt(data, intSize).err, decrypt |-> FALSE]
    ELSE IF UnmarshalParams(LoadSplitInt(data, intSize).paramsJSON).err # NoErr
    THEN [err |-> ErrUnmarshalParams, decrypt |-> FALSE]
    ELSE IF Decrypt(LoadSplitInt(data, intSize).payload, key).err # NoErr
    THEN [err |-> Decrypt(LoadSplitInt(data, intSize).payload, key).err, decrypt |-> TRUE]
    ELSE [err |-> UnmarshalVault(Decrypt(LoadSplitInt(data, intSize).payload, key).out).err,
          decrypt |-> TRUE]

\* LoadParams()
LoadParams(file) ==
    IF ~file.exists THEN [err |-> ErrRead, params |-> NoParams]
    ELSE LoadParamsBytes(file.data)

\* Exists()
Exists(file) == file.exists

----------------------------------------------------------------------------
(* totp.Config: GenerateCodeAt, generateHOTP, ValidateAt *)

ErrInvalidSecret == "invalid secret"
ErrUnsupportedAlgorithm == "unsupported algorithm"

\* strings.ToUpper on an ASCII string
ToUpper(str) ==
    [i \in 1..Len(str) |-> IF str[i] >= 97 /\ str[i] <= 122 THEN str[i] - 32 ELSE str[i]]

\* base32.StdEncoding's decode map: 'A'..'Z' are 0..25, '2'..'7' are 26..31,
\* every other character is 0xFF
DecodeMap(ch) ==
    IF ch >= 65 /\ ch <= 90 THEN ch - 65
    ELSE IF ch >= 50 /\ ch <= 55 THEN ch - 24
    ELSE 255

\* the bytes one quantum of at most eight 5-bit values packs into; without
\* padding a last quantum of 1, 3 or 6 values packs into nothing
Quantum(dbuf) ==
    LET d(i) == IF i <= Len(dbuf) THEN dbuf[i] ELSE 0
        dst == << (d(1) * 8) + (d(2) \div 4),
                  ((d(2) % 4) * 64) + (d(3) * 2) + (d(4) \div 16),
                  ((d(4) % 16) * 16) + (d(5) \div 2),
                  ((d(5) % 2) * 128) + (d(6) * 4) + (d(7) \div 8),
                  ((d(7) % 8) * 32) + d(8) >>
        n == CASE Len(dbuf) = 8 -> 5
               [] Len(dbuf) = 7 -> 4
               [] Len(dbuf) = 5 -> 3
               [] Len(dbuf) = 4 -> 2
               [] Len(dbuf) = 2 -> 1
               [] OTHER -> 0
    IN  Take(dst, n)

RECURSIVE DecodeQuanta(_)
DecodeQuanta(vals) ==
    IF Len(vals) = 0 THEN <<>>
    ELSE IF Len(vals) <= 8 THEN Quantum(vals)
    ELSE Quantum(Take(vals, 8)) \o DecodeQuanta(Drop(vals, 8))

\* base32.StdEncoding.WithPadding(base32.NoPadding).DecodeString(src)
Base32Decode(src) ==
    LET vals == [i \in 1..Len(src) |-> DecodeMap(src[i])]
    IN  IF \E i \in 1..Len(src) : vals[i] = 255
        THEN [err |-> "illegal base32 data", out |-> <<>>]
        ELSE [err |-> NoErr, out |-> DecodeQuanta(vals)]

\* uint64(n) as eight bytes, most significant first; a negative n wraps
\* around to 2^64 + n
U64(n) ==
    IF n >= 0 THEN <<0, 0, 0, 0>> \o BE32(n)
    ELSE LET m == (2147483647 + n) + 1
         IN  <<255, 255, 255, 255, 128 + (m \div 16777216), (m \div 65536) % 256,
               (m \div 256) % 256, m % 256>>

RECURSIVE U64DivStep(_, _, _, _)
\* long division of x[i..8] by d, r being the remainder carried in
U64DivStep(x, d, i, r) ==
    IF i > 8 THEN <<>>
    ELSE LET cur == (r * 256) + x[i]
         IN  <<cur \div d>> \o U64DivStep(x, d, i + 1, cur % d)

\* x / d on uint64, for a divisor d in 1..2^23
U64Div(x, d) == U64DivStep(x, d, 1, 0)

RECURSIVE U64MulStep(_, _, _, _)
U64MulStep(x, k, i, carry) ==
    IF i = 0 THEN <<>>
    ELSE LET cur == (x[i] * k) + carry
         IN  Append(U64MulStep(x, k, i - 1, cur \div 256), cur % 256)

\* x * k on uint64 (modulo 2^64), for a factor k in 0..2^23
U64Mul(x, k) == U64MulStep(x, k, 8, 0)

RECURSIVE U64AddStep(_, _, _)
U64AddStep(x, i, carry) ==
    IF i = 0 THEN <<>>
    ELSE LET cur == x[i] + carry
         IN  Append(U64AddStep(x, i - 1, cur \div 256), cur % 256)

\* x + k on uint64 (modulo 2^64)
U64Add(x, k) == U64AddStep(x, 8, k)

RECURSIVE U64SubStep(_, _, _, _)
U64SubStep(a, b, i, borrow) ==
    IF i = 0 THEN <<>>
    ELSE LET cur == (a[i] - b[i]) - borrow
         IN  Append(U64SubStep(a, b, i - 1, IF cur < 0 THEN 1 ELSE 0),
                    IF cur < 0 THEN cur + 256 ELSE cur)

\* a - b on uint64 (modulo 2^64)
U64Sub(a, b) == U64SubStep(a, b, 8, 0)

\* time.Duration(x) * time.Second in whole seconds, for the x below 2^31 that
\* the model can hold; -1 stands for every longer duration
DurationSeconds(x) ==
    IF Take(x, 4) = <<0, 0, 0, 0>> /\ x[5] < 128
    THEN (x[5] * 16777216) + (x[6] * 65536) + (x[7] * 256) + x[8]
    ELSE -1

\* the key the RFC 6238 test secret decodes to: "12345678901234567890"
RfcKey ==
    <<49, 50, 51, 52, 53, 54, 55, 56, 57, 48, 49, 50, 51, 52, 53, 54, 55, 56, 57, 48>>

\* the key "JBSWY3DPEHPK3PXP" decodes to
HelloKey == <<72, 101, 108, 108, 111, 33, 222, 173, 190, 239>>

\* HMAC-SHA1 of the 8-byte counters 0..15 under RfcKey
HmacSha1Rfc ==
  <<
    <<204, 147, 207, 24, 80, 141, 148, 147, 76, 100, 182, 93, 139, 167, 102, 127, 183, 205, 228,
     176>>,
    <<117, 164, 138, 25, 212, 203, 225, 0, 100, 78, 138, 193, 57, 126, 234, 116, 122, 45, 51, 171>>,
    <<11, 172, 183, 250, 8, 47, 239, 48, 120, 34, 17, 147, 139, 193, 197, 231, 4, 22, 255, 68>>,
    <<102, 194, 130, 39, 208, 58, 45, 85, 41, 38, 47, 240, 22, 161, 230, 239, 118, 85, 126, 206>>,
    <<169, 4, 201, 0, 166, 75, 53, 144, 152, 116, 179, 62, 97, 197, 147, 138, 142, 21, 237, 28>>,
    <<163, 126, 120, 61, 123, 114, 51, 192, 131, 212, 246, 41, 38, 199, 162, 95, 35, 141, 3, 22>>,
    <<188, 156, 210, 133, 97, 4, 44, 131, 242, 25, 50, 77, 60, 96, 114, 86, 192, 50, 114, 174>>,
    <<164, 251, 150, 12, 11, 192, 110, 30, 171, 184, 4, 229, 179, 151, 205, 196, 180, 85, 150,
     250>>,
    <<27, 60, 137, 246, 94, 108, 158, 136, 48, 18, 5, 40, 35, 68, 63, 4, 139, 67, 50, 219>>,
    <<22, 55, 64, 152, 9, 166, 121, 220, 105, 130, 7, 49, 12, 140, 127, 192, 114, 144, 217, 229>>,
    <<155, 157, 213, 239, 154, 154, 210, 93, 215, 59, 249, 172, 206, 166, 111, 137, 161, 37, 232,
     115>>,
    <<202, 30, 4, 2, 193, 158, 219, 104, 37, 51, 158, 160, 20, 63, 11, 238, 84, 252, 13, 192>>,
    <<26, 218, 244, 176, 191, 64, 70, 208, 86, 216, 240, 14, 74, 106, 150, 163, 107, 201, 152, 7>>,
    <<63, 186, 127, 138, 36, 141, 135, 248, 166, 191, 7, 154, 68, 49, 53, 228, 144, 162, 187, 198>>,
    <<5, 109, 16, 220, 44, 5, 32, 0, 204, 79, 149, 253, 207, 217, 34, 4, 51, 114, 190, 153>>,
    <<116, 158, 63, 136, 45, 78, 218, 205, 203, 233, 159, 184, 173, 41, 132, 146, 141, 136, 251,
     166>>
  >>

\* HMAC-SHA256 of the 8-byte counters 0..15 under RfcKey
HmacSha256Rfc ==
  <<
    <<74, 185, 141, 251, 179, 51, 163, 59, 21, 123, 172, 23, 92, 117, 52, 7, 107, 129, 132, 203,
     220, 89, 67, 121, 156, 148, 23, 61, 148, 103, 188, 249>>,
    <<236, 157, 79, 104, 123, 78, 254, 106, 204, 82, 16, 6, 114, 102, 11, 132, 192, 231, 33, 11,
     160, 56, 33, 65, 248, 236, 185, 7, 150, 202, 185, 18>>,
    <<236, 200, 19, 25, 195, 86, 104, 204, 78, 233, 70, 232, 193, 230, 27, 121, 196, 214, 102, 176,
     216, 250, 169, 113, 59, 37, 90, 92, 83, 169, 26, 153>>,
    <<5, 112, 84, 39, 201, 46, 208, 97, 188, 222, 238, 71, 27, 167, 232, 178, 254, 180, 125, 31,
     194, 214, 247, 163, 232, 229, 171, 112, 126, 60, 96, 3>>,
    <<233, 111, 192, 123, 152, 191, 237, 161, 82, 162, 144, 9, 112, 167, 224, 226, 221, 108, 22,
     181, 245, 70, 211, 173, 25, 56, 58, 168, 69, 82, 62, 94>>,
    <<217, 143, 12, 120, 122, 237, 76, 58, 233, 133, 162, 69, 224, 133, 88, 174, 205, 86, 185, 210,
     85, 229, 191, 10, 120, 86, 131, 232, 213, 34, 19, 29>>,
    <<249, 208, 38, 40, 140, 121, 0, 117, 175, 64, 76, 163, 28, 33, 200, 83, 136, 12, 57, 159, 205,
     16, 175, 193, 182, 52, 218, 236, 90, 225, 167, 50>>,
    <<230, 187, 203, 141, 185, 152, 7, 190, 157, 171, 48, 131, 0, 167, 25, 3, 158, 184, 255, 93,
     145, 122, 248, 179, 184, 255, 183, 227, 130, 19, 245, 242>>,
    <<225, 254, 204, 7, 160, 2, 128, 29, 54, 75, 85, 25, 112, 73, 248, 104, 68, 91, 45, 241, 1,
     251, 219, 79, 161, 171, 185, 85, 202, 228, 220, 236>>,
    <<245, 202, 77, 83, 105, 241, 154, 25, 40, 2, 241, 193, 45, 13, 77, 136, 93, 168, 86, 249, 215,
     131, 136, 229, 112, 174, 227, 28, 36, 126, 198, 125>>,
    <<194, 10, 29, 0, 184, 241, 87, 142, 43, 148, 131, 179, 7, 98, 203, 245, 106, 42, 83, 62, 218,
     76, 97, 214, 20, 27, 140, 73, 106, 198, 92, 130>>,
    <<210, 20, 244, 235, 146, 160, 187, 195, 47, 218, 215, 50, 187, 46, 196, 20, 83, 233, 138, 204,
     31, 120, 228, 15, 224, 95, 203, 218, 43, 155, 188, 195>>,
    <<219, 147, 0, 22, 200, 20, 144, 240, 174, 234, 127, 0, 205, 74, 151, 87, 48, 217, 212, 72,
     249, 44, 166, 226, 116, 114, 78, 105, 170, 168, 200, 208>>,
    <<18, 153, 121, 3, 55, 152, 125, 241, 153, 250, 33, 25, 165, 234, 1, 6, 233, 224, 147, 132, 92,
     40, 153, 81, 126, 202, 141, 192, 141, 253, 49, 39>>,
    <<81, 19, 158, 179, 113, 162, 229, 24, 3, 206, 249, 114, 136, 178, 61, 245, 25, 37, 192, 173,
     252, 198, 78, 230, 115, 139, 113, 133, 155, 215, 199, 181>>,
    <<184, 225, 123, 199, 105, 213, 189, 166, 156, 101, 104, 82, 68, 219, 119, 202, 153, 163, 16,
     69, 201, 218, 211, 10, 54, 91, 211, 107, 189, 108, 64, 94>>
  >>

\* HMAC-SHA512 of the 8-byte counters 0..15 under RfcKey
HmacSha512Rfc ==
  <<
    <<197, 164, 2, 55, 237, 107, 184, 173, 39, 248, 56, 245, 8, 53, 150, 53, 230, 62, 4, 190, 210,
     41, 216, 71, 209, 99, 38, 145, 182, 74, 142, 219, 56, 229, 152, 129, 126, 60, 158, 96, 128,
     177, 112, 156, 110, 148, 57, 11, 186, 179, 18, 11, 204, 250, 155, 213, 36, 8, 42, 239, 152,
     210, 74, 193>>,
    <<104, 160, 217, 252, 127, 107, 200, 227, 6, 10, 76, 167, 153, 150, 3, 182, 195, 93, 74, 247,
     178, 158, 24, 197, 79, 79, 145, 140, 36, 64, 180, 123, 109, 142, 43, 43, 70, 223, 37, 241, 36,
     48, 104, 169, 38, 45, 129, 200, 135, 158, 7, 213, 73, 145, 165, 236, 120, 61, 183, 56, 75, 11,
     145, 13>>,
    <<220, 247, 168, 9, 201, 182, 159, 157, 153, 206, 56, 196, 147, 169, 255, 94, 158, 138, 140,
     90, 36, 98, 59, 179, 131, 133, 42, 199, 84, 162, 197, 2, 56, 49, 107, 222, 152, 226, 4, 88, 63,
     250, 30, 240, 53, 217, 121, 38, 20, 230, 181, 59, 88, 121, 140, 187, 84, 249, 50, 164, 125, 32,
     76, 66>>,
    <<122, 124, 72, 207, 37, 19, 162, 51, 43, 38, 52, 172, 110, 49, 210, 244, 154, 200, 253, 48,
     18, 227, 106, 247, 207, 211, 84, 46, 193, 216, 7, 194, 236, 247, 124, 138, 255, 41, 3, 67, 60,
     176, 40, 1, 243, 165, 191, 194, 119, 8, 245, 95, 89, 81, 68, 37, 0, 136, 3, 77, 38, 158, 31,
     198>>,
    <<158, 241, 49, 16, 73, 108, 225, 46, 222, 74, 115, 102, 204, 157, 129, 244, 77, 232, 201, 144,
     219, 126, 29, 71, 182, 247, 71, 101, 182, 157, 198, 60, 205, 93, 134, 113, 152, 24, 179, 238,
     231, 142, 104, 99, 242, 113, 81, 41, 134, 29, 91, 244, 5, 138, 92, 145, 225, 220, 89, 114, 61,
     147, 108, 152>>,
    <<108, 119, 179, 13, 186, 29, 115, 218, 105, 68, 201, 196, 95, 27, 66, 65, 166, 86, 135, 19,
     10, 133, 208, 166, 48, 101, 149, 2, 92, 113, 180, 193, 221, 247, 205, 37, 249, 33, 149, 182,
     82, 1, 240, 169, 104, 124, 143, 122, 219, 78, 30, 183, 27, 143, 193, 238, 158, 161, 39, 181,
     157, 198, 157, 183>>,
    <<229, 217, 226, 36, 49, 216, 106, 184, 3, 99, 183, 187, 81, 191, 60, 99, 180, 129, 200, 3, 50,
     225, 48, 50, 108, 152, 93, 132, 189, 74, 160, 207, 122, 16, 232, 130, 115, 240, 155, 60, 251,
     151, 125, 77, 244, 166, 107, 115, 26, 219, 69, 255, 62, 97, 226, 232, 46, 223, 18, 213, 55, 37,
     123, 244>>,
    <<93, 42, 233, 38, 7, 72, 222, 75, 43, 107, 80, 163, 94, 205, 129, 88, 171, 199, 148, 66, 45,
     181, 123, 228, 89, 129, 174, 141, 182, 21, 101, 242, 201, 77, 76, 142, 195, 208, 230, 244, 179,
     120, 35, 210, 38, 230, 251, 161, 221, 64, 136, 159, 157, 167, 80, 111, 200, 62, 240, 149, 122,
     182, 37, 222>>,
    <<149, 14, 155, 1, 39, 227, 155, 31, 38, 47, 255, 0, 255, 130, 25, 155, 167, 48, 121, 86, 50,
     8, 206, 234, 192, 219, 206, 89, 26, 14, 129, 136, 53, 53, 141, 4, 68, 206, 83, 145, 191, 163,
     159, 60, 122, 153, 174, 98, 8, 119, 230, 115, 94, 37, 112, 55, 29, 6, 96, 227, 148, 194, 94,
     49>>,
    <<66, 113, 103, 32, 69, 245, 87, 227, 61, 222, 222, 213, 189, 156, 37, 145, 154, 139, 196, 13,
     176, 112, 66, 226, 162, 199, 172, 185, 17, 168, 223, 173, 185, 96, 120, 47, 34, 190, 120, 115,
     97, 194, 60, 1, 95, 244, 0, 152, 71, 159, 113, 1, 207, 227, 148, 96, 249, 32, 70, 175, 121, 73,
     61, 60>>,
    <<238, 168, 136, 64, 85, 163, 123, 133, 166, 103, 27, 235, 249, 57, 148, 192, 14, 8, 105, 3,
     117, 83, 239, 68, 104, 34, 85, 4, 242, 156, 252, 219, 131, 31, 43, 127, 129, 179, 222, 177, 71,
     138, 72, 186, 137, 99, 113, 131, 202, 137, 2, 58, 131, 152, 69, 21, 18, 55, 28, 83, 255, 245,
     121, 145>>,
    <<206, 236, 182, 227, 16, 65, 30, 121, 203, 53, 35, 207, 21, 73, 125, 80, 83, 188, 2, 233, 125,
     17, 29, 3, 154, 168, 162, 3, 205, 45, 63, 199, 136, 197, 240, 12, 50, 180, 152, 79, 168, 217,
     110, 216, 147, 169, 88, 200, 17, 218, 33, 3, 200, 117, 249, 100, 27, 29, 75, 111, 70, 233, 217,
     125>>,
    <<3, 178, 242, 182, 52, 52, 116, 6, 47, 27, 192, 80, 76, 230, 23, 71, 211, 60, 182, 81, 208,
     68, 219, 87, 163, 96, 61, 250, 131, 44, 232, 8, 41, 133, 233, 223, 4, 26, 16, 230, 25, 202, 59,
     191, 43, 125, 120, 67, 156, 29, 51, 148, 245, 224, 48, 189, 236, 188, 106, 1, 216, 203, 172,
     23>>,
    <<38, 194, 70, 44, 48, 118, 139, 214, 231, 98, 223, 181, 239, 137, 194, 95, 167, 66, 7, 173,
     216, 206, 132, 154, 60, 51, 83, 144, 155, 186, 6, 90, 72, 117, 128, 9, 52, 28, 124, 83, 35,
     116, 86, 20, 48, 11, 37, 210, 187, 131, 156, 166, 70, 109, 170, 134, 226, 185, 119, 146, 128,
     120, 119, 16>>,
    <<160, 104, 50, 222, 37, 244, 57, 186, 168, 202, 120, 3, 2, 140, 150, 12, 62, 88, 135, 46, 197,
     92, 190, 72, 13, 189, 55, 70, 235, 11, 225, 84, 87, 130, 218, 177, 112, 35, 145, 60, 165, 111,
     141, 16, 253, 116, 80, 178, 22, 228, 86, 70, 210, 212, 194, 161, 76, 242, 168, 119, 247, 138,
     221, 107>>,
    <<99, 239, 52, 167, 103, 157, 171, 160, 253, 199, 205, 49, 68, 43, 240, 79, 64, 87, 197, 104,
     226, 254, 160, 83, 209, 90, 231, 169, 255, 149, 171, 90, 91, 88, 59, 39, 166, 85, 141, 225, 83,
     237, 33, 0, 169, 235, 43, 45, 58, 115, 254, 178, 111, 194, 129, 38, 218, 48, 150, 91, 160, 10,
     69, 49>>
  >>

\* HMAC-SHA1 of the 8-byte counters 0..15 under HelloKey
HmacSha1Hello ==
  <<
    <<44, 216, 233, 4, 227, 149, 167, 65, 72, 119, 170, 47, 130, 97, 225, 36, 53, 114, 196, 53>>,
    <<133, 63, 121, 182, 101, 10, 158, 60, 90, 129, 241, 121, 162, 9, 37, 59, 203, 190, 116, 2>>,
    <<231, 126, 129, 100, 82, 252, 248, 124, 125, 138, 175, 205, 115, 9, 196, 0, 6, 47, 58, 135>>,
    <<106, 185, 57, 8, 220, 219, 74, 63, 180, 149, 211, 138, 32, 79, 65, 9, 135, 203, 20, 94>>,
    <<149, 122, 154, 216, 26, 180, 19, 39, 9, 1, 17, 242, 241, 154, 164, 193, 251, 38, 63, 204>>,
    <<129, 55, 244, 122, 1, 139, 27, 64, 154, 128, 188, 65, 140, 3, 66, 12, 132, 133, 92, 65>>,
    <<88, 191, 207, 86, 95, 81, 151, 130, 239, 209, 242, 172, 21, 166, 158, 81, 222, 156, 148, 85>>,
    <<117, 69, 158, 7, 212, 22, 82, 224, 11, 89, 153, 229, 45, 227, 199, 8, 102, 193, 120, 218>>,
    <<97, 175, 161, 132, 29, 50, 138, 79, 38, 228, 129, 63, 227, 134, 83, 239, 155, 167, 185, 26>>,
    <<145, 127, 114, 136, 87, 21, 33, 31, 187, 238, 225, 133, 192, 49, 117, 8, 182, 80, 128, 163>>,
    <<207, 32, 26, 95, 179, 100, 20, 101, 215, 92, 100, 213, 224, 37, 109, 116, 201, 16, 214, 173>>,
    <<176, 232, 205, 88, 218, 180, 192, 186, 87, 234, 15, 76, 56, 90, 21, 115, 227, 27, 224, 1>>,
    <<213, 220, 211, 194, 247, 152, 86, 12, 73, 126, 139, 140, 164, 8, 128, 34, 37, 149, 49, 130>>,
    <<89, 123, 208, 147, 231, 181, 119, 248, 7, 149, 158, 40, 30, 28, 51, 135, 142, 69, 74, 120>>,
    <<77, 3, 252, 252, 141, 70, 115, 70, 228, 192, 92, 249, 171, 176, 45, 148, 225, 140, 18, 16>>,
    <<203, 95, 15, 117, 124, 117, 207, 231, 209, 193, 112, 228, 86, 162, 16, 18, 105, 198, 23,
     249>>
  >>

\* HMAC-SHA256 of the 8-byte counters 0..15 under HelloKey
HmacSha256Hello ==
  <<
    <<214, 157, 171, 178, 245, 225, 238, 11, 175, 18, 231, 0, 174, 121, 34, 114, 34, 35, 75, 133,
     236, 116, 247, 242, 14, 164, 29, 179, 16, 193, 35, 215>>,
    <<139, 160, 8, 154, 2, 22, 231, 66, 194, 47, 141, 24, 64, 0, 134, 241, 205, 111, 5, 215, 107,
     246, 87, 111, 216, 133, 10, 253, 98, 25, 154, 3>>,
    <<6, 137, 26, 124, 168, 249, 23, 162, 39, 10, 191, 32, 1, 161, 198, 150, 252, 255, 115, 205,
     146, 194, 251, 31, 183, 185, 106, 33, 82, 85, 243, 97>>,
    <<60, 94, 195, 112, 4, 59, 42, 177, 69, 104, 194, 237, 37, 119, 41, 219, 139, 1, 1, 119, 249,
     133, 178, 140, 87, 51, 125, 174, 41, 68, 219, 245>>,
    <<3, 98, 7, 166, 186, 165, 126, 155, 202, 145, 15, 53, 192, 246, 65, 161, 166, 122, 119, 192,
     244, 81, 195, 65, 64, 68, 155, 148, 23, 47, 59, 99>>,
    <<14, 87, 140, 205, 191, 184, 129, 141, 5, 160, 90, 240, 202, 61, 67, 199, 229, 219, 36, 215,
     134, 152, 148, 108, 214, 6, 159, 211, 204, 150, 130, 27>>,
    <<160, 58, 137, 0, 100, 16, 66, 123, 58, 45, 172, 26, 205, 170, 180, 129, 148, 58, 209, 240,
     135, 17, 125, 12, 37, 50, 61, 74, 49, 187, 152, 132>>,
    <<207, 145, 65, 0, 35, 204, 255, 5, 192, 80, 194, 177, 153, 54, 168, 195, 235, 173, 86, 214,
     101, 247, 212, 34, 149, 50, 44, 167, 215, 91, 180, 195>>,
    <<141, 154, 217, 200, 232, 7, 233, 255, 249, 194, 209, 197, 1, 6, 108, 41, 5, 52, 238, 102,
     190, 40, 250, 177, 59, 37, 131, 59, 181, 128, 206, 116>>,
    <<247, 57, 223, 28, 101, 161, 109, 113, 214, 8, 72, 66, 254, 185, 198, 214, 151, 26, 221, 52,
     196, 133, 198, 42, 250, 198, 56, 42, 78, 0, 93, 221>>,
    <<235, 50, 27, 207, 68, 120, 136, 187, 146, 200, 232, 174, 162, 125, 30, 172, 168, 72, 210,
     174, 138, 251, 71, 217, 160, 75, 77, 238, 93, 179, 103, 215>>,
    <<165, 54, 212, 198, 135, 124, 214, 129, 132, 124, 140, 36, 27, 12, 112, 200, 73, 230, 13, 203,
     91, 4, 149, 218, 111, 247, 80, 243, 106, 186, 1, 35>>,
    <<172, 13, 86, 128, 72, 15, 97, 19, 107, 151, 82, 81, 114, 163, 22, 253, 118, 27, 152, 185,
     131, 75, 233, 251, 59, 142, 221, 24, 1, 94, 189, 179>>,
    <<118, 77, 176, 10, 115, 100, 188, 1, 175, 132, 214, 11, 94, 108, 66, 182, 220, 72, 194, 251,
     177, 60, 72, 247, 20, 216, 19, 13, 17, 2, 150, 14>>,
    <<181, 127, 82, 184, 141, 53, 1, 38, 114, 41, 243, 217, 106, 153, 112, 48, 90, 216, 176, 202,
     93, 164, 161, 96, 116, 42, 114, 206, 8, 97, 2, 168>>,
    <<126, 202, 214, 133, 222, 87, 48, 102, 215, 107, 96, 15, 192, 152, 23, 64, 32, 118, 129, 97,
     118, 88, 201, 214, 158, 236, 150, 133, 163, 38, 227, 166>>
  >>

\* HMAC-SHA512 of the 8-byte counters 0..15 under HelloKey
HmacSha512Hello ==
  <<
    <<122, 241, 131, 8, 160, 70, 2, 198, 204, 4, 234, 222, 66, 216, 122, 216, 64, 60, 200, 73, 210,
     161, 20, 73, 88, 17, 49, 95, 48, 193, 104, 187, 39, 39, 112, 154, 130, 118, 198, 193, 200, 200,
     202, 88, 43, 162, 81, 140, 104, 229, 81, 191, 225, 61, 10, 50, 250, 83, 217, 31, 159, 94, 109,
     38>>,
    <<61, 122, 134, 15, 181, 170, 95, 16, 250, 216, 189, 228, 150, 203, 71, 190, 222, 255, 211,
     130, 38, 40, 246, 17, 164, 210, 29, 240, 85, 233, 27, 122, 110, 83, 17, 84, 143, 158, 157, 119,
     19, 85, 56, 3, 195, 156, 198, 91, 95, 100, 69, 86, 109, 105, 33, 158, 132, 182, 45, 113, 51,
     142, 53, 240>>,
    <<10, 111, 198, 120, 226, 98, 214, 191, 119, 85, 22, 7, 129, 162, 79, 228, 234, 73, 249, 40,
     88, 190, 225, 53, 14, 153, 20, 139, 24, 215, 132, 23, 33, 134, 51, 26, 110, 232, 248, 143, 103,
     140, 174, 166, 206, 178, 230, 185, 160, 98, 213, 15, 66, 26, 42, 67, 184, 117, 236, 73, 174,
     232, 46, 84>>,
    <<173, 216, 143, 24, 180, 87, 0, 194, 170, 241, 101, 203, 106, 195, 219, 246, 85, 116, 133,
     178, 233, 18, 125, 223, 210, 73, 3, 68, 222, 19, 157, 246, 1, 41, 162, 223, 177, 201, 119, 120,
     17, 119, 200, 67, 68, 134, 52, 161, 211, 178, 86, 100, 187, 194, 180, 86, 85, 87, 170, 207, 87,
     172, 147, 10>>,
    <<113, 114, 169, 236, 214, 38, 99, 227, 242, 145, 7, 145, 155, 184, 179, 23, 61, 218, 236, 96,
     205, 113, 201, 188, 90, 121, 170, 157, 130, 192, 105, 19, 191, 173, 152, 226, 141, 115, 18,
     241, 104, 201, 255, 174, 250, 249, 129, 72, 10, 20, 232, 223, 233, 248, 194, 40, 61, 44, 235,
     169, 24, 202, 2, 57>>,
    <<41, 199, 75, 88, 231, 198, 167, 162, 60, 20, 84, 52, 82, 105, 233, 179, 68, 219, 132, 7, 230,
     115, 174, 21, 58, 162, 9, 200, 189, 162, 93, 86, 151, 183, 8, 152, 162, 35, 27, 143, 166, 28,
     220, 56, 61, 108, 155, 180, 45, 1, 114, 201, 106, 167, 180, 166, 97, 201, 144, 50, 208, 141,
     168, 45>>,
    <<88, 206, 114, 44, 88, 10, 158, 127, 114, 51, 229, 108, 31, 159, 9, 215, 148, 165, 251, 105,
     104, 0, 35, 164, 62, 157, 252, 113, 72, 97, 154, 247, 154, 68, 230, 154, 50, 99, 252, 174, 56,
     139, 62, 233, 99, 168, 6, 3, 91, 226, 133, 168, 169, 207, 194, 232, 133, 124, 65, 40, 46, 162,
     29, 217>>,
    <<12, 23, 7, 214, 55, 11, 187, 164, 204, 176, 136, 73, 208, 158, 132, 30, 123, 76, 76, 129,
     109, 100, 69, 213, 208, 55, 149, 216, 85, 83, 229, 210, 136, 200, 254, 247, 80, 138, 196, 221,
     68, 59, 34, 165, 35, 184, 95, 76, 68, 231, 115, 152, 219, 251, 138, 96, 53, 65, 1, 119, 210,
     37, 229, 141>>,
    <<68, 229, 74, 177, 132, 67, 104, 220, 40, 24, 243, 226, 145, 94, 108, 143, 215, 82, 174, 30,
     20, 68, 118, 250, 245, 101, 148, 186, 236, 178, 150, 118, 160, 133, 179, 166, 212, 190, 119, 4,
     0, 58, 248, 76, 8, 34, 167, 177, 229, 24, 154, 31, 42, 140, 17, 91, 130, 122, 142, 33, 168, 72,
     6, 247>>,
    <<47, 187, 250, 141, 152, 72, 2, 202, 30, 93, 48, 249, 245, 193, 29, 228, 84, 144, 203, 97, 0,
     56, 133, 5, 199, 229, 252, 242, 218, 171, 200, 174, 172, 194, 212, 177, 76, 109, 121, 34, 55,
     227, 220, 13, 165, 189, 18, 186, 125, 8, 132, 150, 170, 16, 43, 189, 80, 255, 234, 244, 251,
     155, 177, 2>>,
    <<190, 197, 64, 22, 219, 95, 24, 247, 92, 57, 18, 138, 17, 4, 32, 164, 75, 97, 58, 222, 138,
     159, 255, 83, 236, 135, 123, 53, 111, 154, 160, 117, 14, 78, 49, 58, 30, 97, 19, 103, 171, 76,
     52, 23, 236, 59, 153, 242, 44, 249, 33, 0, 52, 129, 48, 149, 215, 223, 232, 0, 175, 110, 142,
     143>>,
    <<103, 38, 191, 54, 141, 202, 227, 221, 173, 86, 47, 136, 46, 239, 42, 22, 224, 141, 23, 206,
     218, 199, 162, 53, 7, 5, 57, 176, 88, 146, 117, 31, 154, 210, 64, 140, 73, 94, 2, 47, 22, 30,
     11, 52, 46, 63, 13, 116, 65, 10, 46, 177, 232, 14, 216, 142, 165, 99, 112, 147, 231, 150, 144,
     201>>,
    <<250, 215, 88, 72, 14, 86, 53, 54, 78, 62, 93, 139, 132, 139, 87, 215, 46, 107, 69, 136, 14,
     125, 28, 185, 156, 236, 223, 74, 75, 40, 227, 76, 18, 132, 113, 114, 232, 230, 106, 35, 17,
     121, 191, 132, 93, 68, 193, 106, 68, 115, 209, 120, 153, 39, 188, 185, 52, 99, 164, 185, 23,
     114, 156, 186>>,
    <<109, 251, 39, 188, 84, 37, 24, 105, 26, 49, 66, 113, 209, 146, 191, 87, 40, 252, 35, 165, 32,
     188, 28, 120, 242, 93, 207, 159, 102, 250, 131, 81, 93, 140, 219, 86, 152, 8, 50, 181, 173,
     255, 247, 136, 138, 87, 54, 253, 96, 8, 3, 116, 152, 147, 153, 19, 181, 197, 164, 134, 8, 210,
     70, 111>>,
    <<229, 237, 250, 191, 26, 9, 92, 216, 232, 193, 252, 123, 130, 105, 117, 65, 43, 132, 160, 84,
     11, 253, 196, 16, 44, 131, 120, 233, 148, 151, 104, 237, 134, 3, 19, 175, 151, 14, 151, 255,
     186, 146, 158, 185, 137, 176, 238, 86, 229, 109, 160, 184, 77, 54, 197, 101, 231, 119, 110,
     126, 183, 221, 146, 139>>,
    <<180, 159, 51, 174, 142, 74, 199, 104, 164, 56, 175, 66, 249, 61, 237, 111, 112, 196, 228,
     150, 25, 45, 249, 146, 210, 210, 246, 82, 64, 74, 209, 31, 231, 81, 1, 62, 232, 155, 223, 253,
     11, 255, 191, 157, 49, 190, 26, 47, 94, 223, 34, 232, 34, 177, 11, 134, 112, 55, 30, 51, 38,
     11, 215, 215>>
  >>

\* hash.Hash.Size() of the three supported algorithms
HashSize(alg) ==
    CASE alg = "SHA1" -> 20
      [] alg = "SHA256" -> 32
      [] alg = "SHA512" -> 64

\* the tabulated digests for an algorithm and a key, <<>> where none is tabulated
HmacVectors(alg, key) ==
    CASE alg = "SHA1" /\ key = RfcKey -> HmacSha1Rfc
      [] alg = "SHA256" /\ key = RfcKey -> HmacSha256Rfc
      [] alg = "SHA512" /\ key = RfcKey -> HmacSha512Rfc
      [] alg = "SHA1" /\ key = HelloKey -> HmacSha1Hello
      [] alg = "SHA256" /\ key = HelloKey -> HmacSha256Hello
      [] alg = "SHA512" /\ key = HelloKey -> HmacSha512Hello
      [] OTHER -> <<>>

\* a digest of HashSize(alg) bytes that depends on every byte of seed
HmacOther(alg, seed) ==
    [i \in 1..HashSize(alg) |-> PolyHash(Append(seed, i), Len(seed) + 1, 31) % 256]

\* the digest of the message that holds counter n: row n of table, or a
\* digest of the right length where the table has no such row
HmacLookup(table, n, alg, key, msg) ==
    IF n >= 0 /\ n < Len(table) THEN table[n + 1]
    ELSE HmacOther(alg, key \o <<HashSize(alg)>> \o msg)

\* hmac.New(h, key); mac.Write(msg); mac.Sum(nil): the true digest for the
\* tabulated keys and counters, and elsewhere a digest of the right length
\* that depends on the algorithm, the key and the message
Hmac(alg, key, msg) ==
    HmacLookup(HmacVectors(alg, key), DurationSeconds(msg), alg, key, msg)

RECURSIVE Pow10(_)
Pow10(n) == IF n = 0 THEN 1 ELSE 10 * Pow10(n - 1)

\* the low 32 bits of 10^d for d in 10..18, -1 where they are 2^31 or more
Pow10Low32 == <<1410065408, 1215752192, -1, 1316134912, 276447232, -1, 1874919424,
                1569325056, -1>>

\* the result of code % uint32(math.Pow10(digits)) for a code below 2^31.
\* 10^digits fits a uint32 up to digits = 9.  Beyond that the conversion is
\* out of range and its result depends on the build: it either keeps the low
\* 32 bits of the 64-bit integer conversion ("truncate", 0 once 10^digits
\* passes 2^63) or saturates at 2^32 - 1 ("saturate").  A negative digits
\* gives a power below 1, which converts to 0.  panic is the run-time panic of
\* a remainder by zero.
ModPow10(code, digits, conv) ==
    IF digits < 0 THEN [panic |-> TRUE, code |-> 0]
    ELSE IF digits <= 9 THEN [panic |-> FALSE, code |-> code % Pow10(digits)]
    ELSE IF conv = "saturate" THEN [panic |-> FALSE, code |-> code]
    ELSE IF digits > 18 THEN [panic |-> TRUE, code |-> 0]
    ELSE LET modulo == Pow10Low32[digits - 9]
         IN  [panic |-> FALSE, code |-> IF modulo = -1 THEN code ELSE code % modulo]

RECURSIVE Itoa(_)
\* strconv.Itoa: the decimal digits of n after its sign
Itoa(n) ==
    IF n < 0 THEN <<45>> \o Itoa(0 - n)
    ELSE IF n < 10 THEN <<48 + n>>
    ELSE Append(Itoa(n \div 10), 48 + (n % 10))

\* fmt.Sprintf(fmt.Sprintf("%%0%dd", width), n) for width >= 0: n padded with
\* zeros to width characters; "%00d" is two zero flags and no width
Sprintf0d(width, n) ==
    LET s == Itoa(n)
    IN  IF Len(s) >= width THEN s ELSE Fill(width - Len(s), 48) \o s

HotpPanic == [panic |-> TRUE, err |-> "panic", code |-> <<>>]

\* binary.BigEndian.Uint32(hmacResult[offset:offset+4]) & 0x7fffffff
DynamicTruncation(hmacResult, offset) ==
    ((hmacResult[offset + 1] % 128) * 16777216)
    + (hmacResult[offset + 2] * 65536)
    + (hmacResult[offset + 3] * 256)
    + hmacResult[offset + 4]

\* the formatted code, or the panic of the remainder
FormatCode(digits, reduced) ==
    IF reduced.panic THEN HotpPanic
    ELSE [panic |-> FALSE, err |-> NoErr, code |-> Sprintf0d(digits, reduced.code)]

\* generateHOTP from the computed HMAC on
TruncateAndFormat(c, hmacResult, conv) ==
    FormatCode(c.digits,
               ModPow10(DynamicTruncation(hmacResult, hmacResult[Len(hmacResult)] % 16),
                        c.digits, conv))

\* c.generateHOTP(secret, counter), counter being the eight bytes of a uint64
generateHOTP(c, secret, counter, conv) ==
    IF c.algorithm \notin {"SHA1", "SHA256", "SHA512"}
    THEN [panic |-> FALSE, err |-> ErrUnsupportedAlgorithm, code |-> <<>>]
    ELSE TruncateAndFormat(c, Hmac(c.algorithm, secret, counter), conv)

TotpPanic == [panic |-> TRUE, err |-> "panic", code |-> <<>>, expiresIn |-> 0]
TotpError(err) == [panic |-> FALSE, err |-> err, code |-> <<>>, expiresIn |-> 0]

\* what GenerateCodeAt returns for the outcome of generateHOTP
TotpResult(hotp, expiresIn) ==
    IF hotp.panic THEN TotpPanic
    ELSE IF hotp.err # NoErr THEN TotpError(hotp.err)
    ELSE [panic |-> FALSE, err |-> NoErr, code |-> hotp.code, expiresIn |-> expiresIn]

\* GenerateCodeAt from the counter on: unix is uint64(t.Unix())
GenerateForCounter(c, secret, unix, counter, conv) ==
    TotpResult(generateHOTP(c, secret, counter, conv),
               DurationSeconds(U64Sub(U64Mul(U64Add(counter, 1), c.period), unix)))

\* GenerateCodeAt from the decoded secret on
GenerateWithSecret(c, secret, t, conv) ==
    IF secret.err # NoErr THEN TotpError(ErrInvalidSecret)
    ELSE IF c.period = 0 THEN TotpPanic
    ELSE GenerateForCounter(c, secret.out, U64(t), U64Div(U64(t), c.period), conv)

\* c.GenerateCodeAt(t) for a period of c.period >= 0 whole seconds and t the
\* Unix time in seconds (negative before the epoch)
GenerateCodeAt(c, t, conv) ==
    GenerateWithSecret(c, Base32Decode(ToUpper(c.secret)), t, conv)

\* the comparisons of ValidateAt, in its order; a code generation that
\* panics ends the call
CompareCodes(code, current, prev, next) ==
    IF current.panic THEN [panic |-> TRUE, ok |-> FALSE]
    ELSE IF current.err = NoErr /\ current.code = code THEN [panic |-> FALSE, ok |-> TRUE]
    ELSE IF prev.panic THEN [panic |-> TRUE, ok |-> FALSE]
    ELSE IF prev.err = NoErr /\ prev.code = code THEN [panic |-> FALSE, ok |-> TRUE]
    ELSE IF next.panic THEN [panic |-> TRUE, ok |-> FALSE]
    ELSE [panic |-> FALSE, ok |-> next.err = NoErr /\ next.code = code]

\* ValidateAt that leaves out the following window
ValidateAtNoNext(c, code, t, conv) ==
    CompareCodes(code, GenerateCodeAt(c, t, conv), GenerateCodeAt(c, t - c.period, conv),
                 TotpError(ErrInvalidSecret))

\* c.ValidateAt(code, t)
ValidateAt(c, code, t, conv) ==
    CompareCodes(code, GenerateCodeAt(c, t, conv), GenerateCodeAt(c, t - c.period, conv),
                 GenerateCodeAt(c, t + c.period, conv))

----------------------------------------------------------------------------
(* totp.ParseURI and Config.ToURI, with the parts of net/url and strconv they call.
   Strings are sequences of ASCII codes. *)

StrOtpauth == <<111, 116, 112, 97, 117, 116, 104>>
StrTotp == <<116, 111, 116, 112>>
StrSecret == <<115, 101, 99, 114, 101, 116>>
StrIssuer == <<105, 115, 115, 117, 101, 114>>
StrPeriod == <<112, 101, 114, 105, 111, 100>>
StrDigits == <<100, 105, 103, 105, 116, 115>>
StrAlgorithm == <<97, 108, 103, 111, 114, 105, 116, 104, 109>>
StrSHA1 == <<83, 72, 65, 49>>
StrSHA256 == <<83, 72, 65, 50, 53, 54>>
StrSHA512 == <<83, 72, 65, 53, 49, 50>>

IsLetter(c) == (c >= 97 /\ c <= 122) \/ (c >= 65 /\ c <= 90)
IsDigit(c) == c >= 48 /\ c <= 57
IsHex(c) == IsDigit(c) \/ (c >= 97 /\ c <= 102) \/ (c >= 65 /\ c <= 70)

\* net/url unhex
Unhex(c) == IF IsDigit(c) THEN c - 48 ELSE IF c >= 97 THEN (c - 97) + 10 ELSE (c - 65) + 10

\* "0123456789ABCDEF"[n]
UpperHex(n) == IF n < 10 THEN 48 + n ELSE 55 + n

\* strings.ToLower on an ASCII string
ToLower(str) ==
    [i \in 1..Len(str) |-> IF str[i] >= 65 /\ str[i] <= 90 THEN str[i] + 32 ELSE str[i]]

Least(S) == CHOOSE x \in S : \A y \in S : x <= y
Greatest(S) == CHOOSE x \in S : \A y \in S : x >= y

\* strings.IndexByte and strings.LastIndexByte, counting from 1; 0 when c is absent
IndexByte(s, c) ==
    IF \E i \in 1..Len(s) : s[i] = c THEN Least({i \in 1..Len(s) : s[i] = c}) ELSE 0
LastIndexByte(s, c) ==
    IF \E i \in 1..Len(s) : s[i] = c THEN Greatest({i \in 1..Len(s) : s[i] = c}) ELSE 0

HasPrefix(s, prefix) == Len(s) >= Len(prefix) /\ Take(s, Len(prefix)) = prefix

\* the two strings of strings.Cut(s, string(c))
CutBefore(s, c) == IF IndexByte(s, c) = 0 THEN s ELSE Take(s, IndexByte(s, c) - 1)
CutAfter(s, c) == IF IndexByte(s, c) = 0 THEN <<>> ELSE Drop(s, IndexByte(s, c))

\* strconv.Atoi: an optional sign and then decimal digits only.  Digit strings of
\* ten characters and more are not enumerated by any harness.
RECURSIVE DecimalValue(_)
DecimalValue(ds) ==
    IF ds = <<>> THEN 0
    ELSE (DecimalValue(Take(ds, Len(ds) - 1)) * 10) + (ds[Len(ds)] - 48)

AtoiDigits(s) == IF s # <<>> /\ s[1] \in {43, 45} THEN Tail(s) ELSE s

Atoi(s) ==
    IF AtoiDigits(s) = <<>> \/ \E i \in 1..Len(AtoiDigits(s)) : ~IsDigit(AtoiDigits(s)[i])
    THEN [ok |-> FALSE, n |-> 0]
    ELSE [ok |-> TRUE,
          n |-> IF s[1] = 45 THEN 0 - DecimalValue(AtoiDigits(s))
                ELSE DecimalValue(AtoiDigits(s))]

\* net/url shouldEscape for the modes encodePathSegment ("pathSegment"),
\* encodeQueryComponent ("query"), encodePath ("path") and encodeHost ("host")
ShouldEscape(c, mode) ==
    IF IsLetter(c) \/ IsDigit(c) THEN FALSE
    ELSE IF mode = "host"
    THEN c \notin {33, 36, 38, 39, 40, 41, 42, 43, 44, 59, 61, 58, 91, 93, 60, 62, 34,
                   45, 95, 46, 126}
    ELSE IF c \in {45, 95, 46, 126} THEN FALSE
    ELSE IF c \in {36, 38, 43, 44, 47, 58, 59, 61, 63, 64}
    THEN CASE mode = "path" -> c \in {59, 44, 63}
           [] mode = "pathSegment" -> c \in {47, 59, 44, 63}
           [] OTHER -> TRUE
    ELSE TRUE

EscapeByte(c, mode) ==
    IF ~ShouldEscape(c, mode) THEN <<c>>
    ELSE IF c = 32 /\ mode = "query" THEN <<43>>
    ELSE <<37, UpperHex(c \div 16), UpperHex(c % 16)>>

RECURSIVE Escape(_, _)
\* net/url escape
Escape(s, mode) ==
    IF s = <<>> THEN <<>> ELSE EscapeByte(Head(s), mode) \o Escape(Tail(s), mode)

QueryEscape(s) == Escape(s, "query")
PathEscape(s) == Escape(s, "pathSegment")

BadEscape == [ok |-> FALSE, out |-> <<>>]
Unescaped(c, rest) == IF rest.ok THEN [ok |-> TRUE, out |-> <<c>> \o rest.out] ELSE BadEscape

\* a well-formed %XY at the head of s, as unescape's first pass requires
EscapeOk(s, mode) ==
    /\ Len(s) >= 3
    /\ IsHex(s[2])
    /\ IsHex(s[3])
    /\ (mode = "host") => (Unhex(s[2]) >= 8 \/ SubSeq(s, 1, 3) = <<37, 50, 53>>)

RECURSIVE Unescape(_, _)
\* net/url unescape: %XY is the byte XY, '+' is a space in a query component,
\* a host may not hold a byte that shouldEscape names
Unescape(s, mode) ==
    IF s = <<>> THEN [ok |-> TRUE, out |-> <<>>]
    ELSE IF s[1] = 37
    THEN IF EscapeOk(s, mode)
         THEN Unescaped((Unhex(s[2]) * 16) + Unhex(s[3]), Unescape(Drop(s, 3), mode))
         ELSE BadEscape
    ELSE IF mode = "host" /\ s[1] < 128 /\ ShouldEscape(s[1], "host") THEN BadEscape
    ELSE Unescaped(IF s[1] = 43 /\ mode = "query" THEN 32 ELSE s[1],
                   Unescape(Tail(s), mode))

QueryUnescape(s) == Unescape(s, "query")

UrlError == [err |-> TRUE, scheme |-> <<>>, host |-> <<>>, path |-> <<>>, rawQuery |-> <<>>]

\* net/url getScheme: the letters, digits, '+', '-' and '.' before the first ':'
SchemeStops(rawURL) ==
    {i \in 1..Len(rawURL) :
        ~(IsLetter(rawURL[i]) \/ (i > 1 /\ (IsDigit(rawURL[i]) \/ rawURL[i] \in {43, 45, 46})))}

GetScheme(rawURL) ==
    IF SchemeStops(rawURL) = {} \/ rawURL[Least(SchemeStops(rawURL))] # 58
    THEN [err |-> FALSE, scheme |-> <<>>, rest |-> rawURL]
    ELSE IF Least(SchemeStops(rawURL)) = 1
    THEN [err |-> TRUE, scheme |-> <<>>, rest |-> <<>>]
    ELSE [err |-> FALSE, scheme |-> Take(rawURL, Least(SchemeStops(rawURL)) - 1),
          rest |-> Drop(rawURL, Least(SchemeStops(rawURL)))]

\* net/url setPath
SetPath(scheme, host, rest, rawQuery) ==
    IF Unescape(rest, "path").ok
    THEN [err |-> FALSE, scheme |-> scheme, host |-> host,
          path |-> Unescape(rest, "path").out, rawQuery |-> rawQuery]
    ELSE UrlError

\* net/url validOptionalPort on the text from the last ':' of the host
ValidOptionalPort(port) ==
    port = <<>> \/ (port[1] = 58 /\ \A i \in 2..Len(port) : IsDigit(port[i]))

\* net/url validUserinfo
ValidUserinfo(s) ==
    \A i \in 1..Len(s) :
        IsLetter(s[i]) \/ IsDigit(s[i])
            \/ s[i] \in {45, 46, 95, 58, 126, 33, 36, 38, 39, 40, 41, 42, 43, 44, 59, 61, 37, 64}

\* net/url parseHost for a host that is not an IP literal in brackets
ParseHost(host) ==
    IF LastIndexByte(host, 58) # 0
            /\ ~ValidOptionalPort(Drop(host, LastIndexByte(host, 58) - 1))
    THEN BadEscape
    ELSE Unescape(host, "host")

\* net/url parseAuthority: the user information ends at the last '@'
ParseAuthority(authority) ==
    IF LastIndexByte(authority, 64) = 0 THEN ParseHost(authority)
    ELSE IF ~ValidUserinfo(Take(authority, LastIndexByte(authority, 64) - 1)) THEN BadEscape
    ELSE ParseHost(Drop(authority, LastIndexByte(authority, 64)))

\* the authority of "//authority/path" and then the path
ParseHier(scheme, afterSlashes, rawQuery) ==
    IF ~ParseAuthority(CutBefore(afterSlashes, 47)).ok THEN UrlError
    ELSE SetPath(scheme, ParseAuthority(CutBefore(afterSlashes, 47)).out,
                 IF IndexByte(afterSlashes, 47) = 0 THEN <<>>
                 ELSE Drop(afterSlashes, IndexByte(afterSlashes, 47) - 1),
                 rawQuery)

\* net/url parse after the scheme and the query are cut off
ParseRest(scheme, rest, rawQuery) ==
    IF ~HasPrefix(rest, <<47>>) /\ scheme # <<>>
    THEN [err |-> FALSE, scheme |-> scheme, host |-> <<>>, path |-> <<>>,
          rawQuery |-> rawQuery]                          \* url.Opaque
    ELSE IF ~HasPrefix(rest, <<47>>) /\ IndexByte(CutBefore(rest, 47), 58) # 0
    THEN UrlError
    ELSE IF (scheme # <<>> \/ ~HasPrefix(rest, <<47, 47, 47>>)) /\ HasPrefix(rest, <<47, 47>>)
    THEN ParseHier(scheme, Drop(rest, 2), rawQuery)
    ELSE SetPath(scheme, <<>>, rest, rawQuery)

\* a single trailing '?' is url.ForceQuery, otherwise the query starts at the first '?'
ParseQueryCut(scheme, rest) ==
    IF rest # <<>> /\ rest[Len(rest)] = 63 /\ IndexByte(rest, 63) = Len(rest)
    THEN ParseRest(scheme, Take(rest, Len(rest) - 1), <<>>)
    ELSE ParseRest(scheme, CutBefore(rest, 63), CutAfter(rest, 63))

ParseScheme(s) == IF s.err THEN UrlError ELSE ParseQueryCut(ToLower(s.scheme), s.rest)

\* net/url Parse: no control byte, the fragment cut off, the scheme in lower case
UrlParse(rawURL) ==
    IF \E i \in 1..Len(rawURL) : rawURL[i] < 32 \/ rawURL[i] = 127 THEN UrlError
    ELSE ParseScheme(GetScheme(CutBefore(rawURL, 35)))

\* one "key=value" of net/url parseQuery; a pair that holds ';', is empty or does
\* not unescape is skipped
PairOk(pair) ==
    /\ pair # <<>>
    /\ IndexByte(pair, 59) = 0
    /\ QueryUnescape(CutBefore(pair, 61)).ok
    /\ QueryUnescape(CutAfter(pair, 61)).ok

RECURSIVE QueryGet(_, _)
\* URL.Query().Get(key): the first value of key, "" when key is absent
QueryGet(query, key) ==
    IF query = <<>> THEN <<>>
    ELSE IF PairOk(CutBefore(query, 38)) /\ QueryUnescape(CutBefore(CutBefore(query, 38), 61)).out = key
    THEN QueryUnescape(CutAfter(CutBefore(query, 38), 61)).out
    ELSE QueryGet(CutAfter(query, 38), key)

RECURSIVE ValuesEncode(_)
\* url.Values.Encode of <<key, value>> pairs held in key order
ValuesEncode(pairs) ==
    IF pairs = <<>> THEN <<>>
    ELSE QueryEscape(Head(pairs)[1]) \o <<61>> \o QueryEscape(Head(pairs)[2])
            \o (IF Len(pairs) > 1 THEN <<38>> ELSE <<>>) \o ValuesEncode(Tail(pairs))

DefaultPeriod == 30
DefaultDigits == 6

NoUriConfig ==
    [secret |-> <<>>, issuer |-> <<>>, account |-> <<>>, period |-> 0, digits |-> 0,
     algorithm |-> <<>>]

\* totp.DefaultConfig, the period in whole seconds
DefaultConfig(secret) ==
    [secret |-> secret, issuer |-> <<>>, account |-> <<>>, period |-> DefaultPeriod,
     digits |-> DefaultDigits, algorithm |-> StrSHA1]

\* the label of Config.ToURI
ToURILabel(c) ==
    IF c.issuer # <<>> /\ c.account # <<>> THEN c.issuer \o <<58>> \o c.account
    ELSE IF c.issuer # <<>> THEN c.issuer
    ELSE c.account

\* the url.Values of Config.ToURI; Encode writes them sorted by key
ToURIValues(c) ==
    (IF c.algorithm # StrSHA1 THEN << <<StrAlgorithm, c.algorithm>> >> ELSE <<>>)
        \o (IF c.digits # DefaultDigits THEN << <<StrDigits, Itoa(c.digits)>> >> ELSE <<>>)
        \o (IF c.issuer # <<>> THEN << <<StrIssuer, c.issuer>> >> ELSE <<>>)
        \o (IF c.period # DefaultPeriod THEN << <<StrPeriod, Itoa(c.period)>> >> ELSE <<>>)
        \o << <<StrSecret, c.secret>> >>

\* Config.ToURI: "otpauth://totp/" label "?" values
ToURI(c) ==
    StrOtpauth \o <<58, 47, 47>> \o StrTotp \o <<47>> \o PathEscape(ToURILabel(c))
        \o <<63>> \o ValuesEncode(ToURIValues(c))

ErrInvalidURI == "invalid URI"
ErrInvalidScheme == "invalid scheme"
ErrInvalidType == "invalid type"
ErrMissingSecret == "missing secret parameter"
ErrInvalidPeriod == "invalid period"
ErrInvalidDigits == "invalid digits"

UriError(err) == [err |-> err, config |-> NoUriConfig]

\* strings.TrimPrefix(u.Path, "/")
TrimSlash(path) == IF HasPrefix(path, <<47>>) THEN Tail(path) ELSE path

\* ParseURI's label: "issuer:account" or "account", cut at the first ':'
WithLabel(config, label) ==
    IF label = <<>> THEN config
    ELSE IF IndexByte(label, 58) # 0
    THEN [config EXCEPT !.issuer = IF @ = <<>> THEN CutBefore(label, 58) ELSE @,
                        !.account = CutAfter(label, 58)]
    ELSE [config EXCEPT !.account = label]

\* ParseURI's optional parameters, read in the order issuer, period, digits, algorithm
WithAlgorithm(config, query) ==
    IF QueryGet(query, StrAlgorithm) # <<>>
    THEN [config EXCEPT !.algorithm = ToUpper(QueryGet(query, StrAlgorithm))]
    ELSE config

WithIssuer(config, query) ==
    IF QueryGet(query, StrIssuer) # <<>>
    THEN [config EXCEPT !.issuer = QueryGet(query, StrIssuer)]
    ELSE config

ParseOptions(u, secret) ==
    IF QueryGet(u.rawQuery, StrPeriod) # <<>> /\ ~Atoi(QueryGet(u.rawQuery, StrPeriod)).ok
    THEN UriError(ErrInvalidPeriod)
    ELSE IF QueryGet(u.rawQuery, StrDigits) # <<>> /\ ~Atoi(QueryGet(u.rawQuery, StrDigits)).ok
    THEN UriError(ErrInvalidDigits)
    ELSE [err |-> NoErr,
          config |->
            WithLabel(
              WithAlgorithm(
                [WithIssuer(DefaultConfig(secret), u.rawQuery) EXCEPT
                    !.period = IF QueryGet(u.rawQuery, StrPeriod) # <<>>
                               THEN Atoi(QueryGet(u.rawQuery, StrPeriod)).n ELSE @,
                    !.digits = IF QueryGet(u.rawQuery, StrDigits) # <<>>
                               THEN Atoi(QueryGet(u.rawQuery, StrDigits)).n ELSE @],
                u.rawQuery),
              TrimSlash(u.path))]

ParseParsed(u) ==
    IF u.err THEN UriError(ErrInvalidURI)
    ELSE IF u.scheme # StrOtpauth THEN UriError(ErrInvalidScheme)
    ELSE IF u.host # StrTotp THEN UriError(ErrInvalidType)
    ELSE IF QueryGet(u.rawQuery, StrSecret) = <<>> THEN UriError(ErrMissingSecret)
    ELSE ParseOptions(u, QueryGet(u.rawQuery, StrSecret))

\* totp.ParseURI
ParseURI(uri) == ParseParsed(UrlParse(uri))

----------------------------------------------------------------------------
(* tui.App.Update: the screens, the keys and the messages of the application *)

\* crypto.ZeroBytes
ZeroBytes(b) == [i \in 1..Len(b) |-> 0]

\* the App after NewApp; the login screen is NewLoginScreen(vaultExists)
NewApp(vaultExists) ==
    [currentScreen |-> "login", previousScreen |-> "login",
     settingsScreen |-> FALSE, helpScreen |-> FALSE,
     isNewVault |-> ~vaultExists, step |-> 0,
     entries |-> 0, locker |-> "nil", quit |-> FALSE]

\* infrastructure.NewAutoLocker(timeout, callback)
NewAutoLocker(timeout, t) == [timeout |-> timeout, lastActivity |-> t, running |-> FALSE]

NoCmd == "nil"
TeaQuit == "tea.Quit"

Handled(a, cmd) == [app |-> a, cmd |-> cmd]

\* LoginScreen.Update(tea.KeyMsg); typed says what the two password inputs hold
LoginKey(a, key, typed) ==
    CASE key = "esc" -> Handled(a, TeaQuit)
      [] key = "ctrl+n" -> Handled([a EXCEPT !.isNewVault = ~@, !.step = 0], NoCmd)
      [] key = "enter" ->
            IF a.isNewVault
            THEN IF a.step = 0 THEN Handled([a EXCEPT !.step = 1], NoCmd)
                 ELSE IF typed \in {"mismatch", "short"} THEN Handled([a EXCEPT !.step = 0], NoCmd)
                 ELSE Handled(a, "UnlockMsg{IsNew}")
            ELSE Handled(a, IF typed = "right" THEN "UnlockMsg{right}" ELSE "UnlockMsg{wrong}")
      [] key = "tab" ->
            Handled(IF a.isNewVault /\ a.step = 1 THEN [a EXCEPT !.step = 0] ELSE a, NoCmd)
      [] OTHER -> Handled(a, NoCmd)

\* App.Update(tea.KeyMsg) on the vault list, then VaultListScreen.Update
ListKey(a, key) ==
    CASE key = "enter" /\ a.entries > 0 -> Handled([a EXCEPT !.currentScreen = "detail"], NoCmd)
      [] key = "ctrl+," ->
            Handled([a EXCEPT !.settingsScreen = TRUE, !.previousScreen = a.currentScreen,
                              !.currentScreen = "settings"], NoCmd)
      [] key = "?" ->
            Handled([a EXCEPT !.helpScreen = TRUE, !.previousScreen = a.currentScreen,
                              !.currentScreen = "settings"], NoCmd)
      [] key = "ctrl+n" -> Handled(a, "NewEntryMsg")
      [] OTHER -> Handled(a, NoCmd)

\* EntryDetailScreen.Update(tea.KeyMsg)
DetailKey(a, key) ==
    CASE key = "esc" -> Handled(a, "BackMsg")
      [] key = "ctrl+e" -> Handled(a, "EditEntryMsg")
      [] OTHER -> Handled(a, NoCmd)

\* EntryEditorScreen.Update(tea.KeyMsg)
EditorKey(a, key) ==
    CASE key = "esc" -> Handled(a, "CancelEditMsg")
      [] key = "ctrl+s" -> Handled(a, "SaveEntryMsg")
      [] OTHER -> Handled(a, NoCmd)

\* the routing of ScreenSettings: the settings screen when there is one, else the
\* help screen; SettingsScreen.Update and HelpScreen.Update
SettingsKey(a, key) ==
    IF a.settingsScreen
    THEN CASE key = "esc" -> Handled(a, "BackMsg")
           [] key = "ctrl+s" -> Handled(a, "SaveSettingsMsg")
           [] OTHER -> Handled(a, NoCmd)
    ELSE IF a.helpScreen THEN Handled(a, "BackMsg")
    ELSE Handled(a, NoCmd)

\* App.Update(tea.KeyMsg): the global shortcuts, then the current screen
UpdateKey(a, key, typed) ==
    IF key \in {"ctrl+c", "ctrl+q"} THEN Handled(a, TeaQuit)
    ELSE CASE a.currentScreen = "login" -> LoginKey(a, key, typed)
           [] a.currentScreen = "list" -> ListKey(a, key)
           [] a.currentScreen = "detail" -> DetailKey(a, key)
           [] a.currentScreen = "editor" -> EditorKey(a, key)
           [] a.currentScreen = "settings" -> SettingsKey(a, key)

\* App.Update on the messages that touch the screens only
UpdateMsg(a, msg) ==
    CASE msg = "BackMsg" ->
            IF a.currentScreen = "detail" THEN [a EXCEPT !.currentScreen = "list"] ELSE a
      [] msg \in {"EditEntryMsg", "NewEntryMsg"} ->
            [a EXCEPT !.previousScreen = a.currentScreen, !.currentScreen = "editor"]
      [] msg = "CancelEditMsg" -> [a EXCEPT !.currentScreen = a.previousScreen]
      [] msg = "SaveSettingsMsg" -> [a EXCEPT !.currentScreen = "list"]

----------------------------------------------------------------------------
(* Harnesses that are not in use *)

NoResult == [err |-> "none", out |-> <<>>, calls |-> <<>>]
NoPeek == [err |-> "none", params |-> NoParams]
NoLoad == [err |-> "none", params |-> NoParams, payload |-> <<>>]

\* the cipher harness is not in use
CipherParked ==
    /\ cPlain = <<>>
    /\ cEncKey = <<>>
    /\ cEnc = NoResult
    /\ cBlob = <<>>
    /\ cMut = "none"
    /\ cDecKey = <<>>
    /\ cDec = NoResult
    /\ cPhase = "parked"
    /\ cBadErrs = {}

\* the container harness is not in use
ContainerParked ==
    /\ kParams = NoParams
    /\ kCipher = <<>>
    /\ kFile = <<>>
    /\ kAlt = "none"
    /\ kLoad = NoLoad
    /\ kPeek = NoPeek
    /\ kPhase = "parked"

NilKey == <<>>
NoJob == [caller |-> "none", buf |-> <<>>, before |-> NoFile, vault |-> NoVault, pw |-> <<>>]
NothingOnDisk == [saved |-> FALSE, buf |-> <<>>, pw |-> <<>>, vault |-> NoVault]
NoUnlock ==
    [impl |-> "none", fresh |-> FALSE, pw |-> <<>>, err |-> "none", vault |-> NoVault,
     derived |-> FALSE,
     keyParams |-> NoParams, fileErr |-> "none", fileParams |-> NoParams,
     saved |-> NothingOnDisk]

\* the process model is not in use
SysParked ==
    /\ disk = [path |-> NoFile, tmp |-> NoFile]
    /\ impl = "parked"
    /\ currentScreen = "login"
    /\ masterKey = NilKey
    /\ vault = NoVault
    /\ lastErr = "none"
    /\ pc = "parked"
    /\ job = NoJob
    /\ rng = 0
    /\ now = 0
    /\ idSeq = 0
    /\ sessionPw = <<>>
    /\ onDisk = NothingOnDisk
    /\ unlock = NoUnlock
    /\ locked = FALSE

NoConfig == [secret |-> <<>>, period |-> 0, digits |-> 0, algorithm |-> ""]
NoCode == [panic |-> FALSE, err |-> "none", code |-> <<>>, expiresIn |-> 0]
NoCheck == [code |-> <<>>, at |-> 0, ok |-> FALSE, panic |-> FALSE]

\* the TOTP harness is not in use
TotpParked ==
    /\ tCfg = NoConfig
    /\ tConv = "none"
    /\ tAt = 0
    /\ tGen = NoCode
    /\ tChk = NoCheck
    /\ tPhase = "parked"

NoRaw == [scheme |-> <<>>, host |-> <<>>, path |-> <<>>, params |-> <<>>]
NoParse == [err |-> "none", config |-> NoUriConfig]
NoUse == [op |-> "none", at |-> 0, panic |-> FALSE]

\* the otpauth URI harness is not in use
UriParked ==
    /\ uCfg = NoUriConfig
    /\ uRaw = NoRaw
    /\ uUri = <<>>
    /\ uOut = NoParse
    /\ uUse = NoUse
    /\ uPhase = "parked"

NoApp ==
    [currentScreen |-> "login", previousScreen |-> "login",
     settingsScreen |-> FALSE, helpScreen |-> FALSE,
     isNewVault |-> FALSE, step |-> 0,
     entries |-> 0, locker |-> "nil", quit |-> FALSE]
NoVaultFile == [exists |-> FALSE, key |-> <<>>]

\* the session harness is not in use
TuiParked ==
    /\ gFront = "parked"
    /\ gApp = NoApp
    /\ gKey = 0
    /\ gHeap = <<>>
    /\ gFile = NoVaultFile
    /\ gInbox = {}
    /\ gClock = 0
    /\ gLastInput = 0
    /\ gTimeout = 0
    /\ gSalts = 0
    /\ gOverwrote = FALSE

\* the entries harness is not in use
EntParked ==
    /\ eVault = NoVault
    /\ eHeld = {}
    /\ eSeq = 0
    /\ ePhase = "parked"

NoCall == [op |-> "none", text |-> <<>>, at |-> 0]

\* the clipboard harness is not in use
NoOutcome == [err |-> "none", decrypt |-> FALSE]

ReaderParked ==
    /\ lFile = <<>>
    /\ lInt = 0
    /\ lOut = NoOutcome
    /\ lPhase = "parked"

NoBuffers == [err |-> "none", made |-> FALSE, bytes |-> <<>>]

BufParked ==
    /\ zIn = <<>>
    /\ zSave = NoBuffers
    /\ zLoad = NoBuffers
    /\ zPhase = "parked"

NoAttempt == [err |-> "none", keyLen |-> -1, panic |-> FALSE]

UnlParked ==
    /\ xFile = NoFile
    /\ xPw = <<>>
    /\ xOut = NoAttempt
    /\ xPhase = "parked"

WatParked ==
    /\ wTimeout = 0
    /\ wRunning = FALSE
    /\ wLast = 0
    /\ wTicker = 0
    /\ wTickers = <<>>
    /\ wCmds = <<>>
    /\ wClock = -1
    /\ wStops = 0

NoSubmit == [form |-> "none", a |-> <<>>, b |-> <<>>, entry |-> <<>>, vault |-> <<>>,
             file |-> <<>>]

FrmParked ==
    /\ fScreen = "parked"
    /\ fLogin = <<>>
    /\ fEditor = <<>>
    /\ fEntry = <<>>
    /\ fVault = <<>>
    /\ fFile = <<>>
    /\ fMsg = "none"
    /\ fBefore = NoSubmit

NoMutation == [op |-> "none", ok |-> FALSE, i |-> 0, before |-> <<>>, at |-> 0]

MutParked ==
    /\ mVault = <<>>
    /\ mClock = -1
    /\ mLast = NoMutation

NoTry == [pw |-> 0, ok |-> FALSE]

ViewParked ==
    /\ vApp = <<>>
    /\ vFile = "parked"
    /\ vInbox = {}
    /\ vTries = -1
    /\ vLast = NoTry

TickParked ==
    /\ dApp = <<>>
    /\ dSecret = FALSE
    /\ dPending = 0
    /\ dDue = 0
    /\ dInbox = {}
    /\ dClock = -1
    /\ dLost = 0

ClipParked ==
    /\ bText = <<>>
    /\ bTimeout = 0
    /\ bTimer = 0
    /\ bTimers = <<>>
    /\ bClock = -1
    /\ bLast = NoCall

----------------------------------------------------------------------------
(* Cipher harness: Encrypt a buffer, alter the blob, Decrypt it *)

Plaintexts == SeqsUpTo({0, 72, 255}, MaxPlain)

\* make([]byte, 32); the same with key[0] = 1; a 16-byte, a 33-byte and an empty key
CipherKeys ==
    {Fill(32, 0), [Fill(32, 0) EXCEPT ![1] = 1], Fill(16, 0), Fill(33, 0), <<>>}

InitCipher ==
    /\ cPlain \in Plaintexts
    /\ cEncKey \in CipherKeys
    /\ cEnc = NoResult
    /\ cBlob = <<>>
    /\ cMut = "none"
    /\ cDecKey = <<>>
    /\ cDec = NoResult
    /\ cPhase = "start"
    /\ cBadErrs = {}
    /\ ContainerParked
    /\ SysParked
    /\ TotpParked
    /\ UriParked
    /\ TuiParked
    /\ EntParked
    /\ ClipParked
    /\ ReaderParked
    /\ BufParked
    /\ UnlParked
    /\ WatParked
    /\ FrmParked
    /\ MutParked
    /\ ViewParked
    /\ TickParked

CipherEncrypt ==
    /\ cPhase = "start"
    /\ \E rnd \in {RandBytes(n, NonceSize) : n \in 1..MaxRand} \cup {RandFail} :
          LET r == Encrypt(cPlain, cEncKey, rnd)
          IN  /\ cEnc' = r
              /\ cBlob' = r.out
              /\ cPhase' = IF r.err = NoErr THEN "sealed" ELSE "rejected"
    /\ UNCHANGED <<cPlain, cEncKey, cMut, cDecKey, cDec, cBadErrs>>
    /\ UNCHANGED notCipher

\* encrypted[i] ^= 1 << bit
CipherFlipBit ==
    /\ cPhase = "sealed"
    /\ cMut = "none"
    /\ \E i \in 1..Len(cBlob), bit \in 0..7 :
          cBlob' = FlipBit(cBlob, i, bit)
    /\ cMut' = "flip"
    /\ UNCHANGED <<cPlain, cEncKey, cEnc, cDecKey, cDec, cPhase, cBadErrs>>
    /\ UNCHANGED notCipher

\* encrypted = encrypted[:n]
CipherTruncate ==
    /\ cPhase = "sealed"
    /\ cMut = "none"
    /\ \E n \in 0..(Len(cBlob) - 1) :
          cBlob' = Take(cBlob, n)
    /\ cMut' = "trunc"
    /\ UNCHANGED <<cPlain, cEncKey, cEnc, cDecKey, cDec, cPhase, cBadErrs>>
    /\ UNCHANGED notCipher

\* a Decrypt input is bad when the blob was altered or the key is not the sealing key
BadInput(mut, encKey, decKey) == mut # "none" \/ decKey # encKey

CipherDecrypt ==
    /\ cPhase = "sealed"
    /\ \E key \in CipherKeys :
          LET r == Decrypt(cBlob, key)
          IN  /\ cDecKey' = key
              /\ cDec' = r
              /\ cBadErrs' = IF Len(key) = KeySize /\ BadInput(cMut, cEncKey, key)
                             THEN cBadErrs \cup {r.err}
                             ELSE cBadErrs
    /\ cPhase' = "opened"
    /\ UNCHANGED <<cPlain, cEncKey, cEnc, cBlob, cMut>>
    /\ UNCHANGED notCipher

\* the harness hands the same sealed blob to Decrypt again
CipherRetry ==
    /\ cPhase = "opened"
    /\ cPhase' = "sealed"
    /\ cDec' = NoResult
    /\ cDecKey' = <<>>
    /\ UNCHANGED <<cPlain, cEncKey, cEnc, cBlob, cMut, cBadErrs>>
    /\ UNCHANGED notCipher

NextCipher ==
    \/ CipherEncrypt
    \/ CipherFlipBit
    \/ CipherTruncate
    \/ CipherDecrypt
    \/ CipherRetry

SpecCipher == InitCipher /\ [][NextCipher]_vars

----------------------------------------------------------------------------
(* Container harness: Save's buffer, altered or not, read by Load and LoadParams *)

\* parameter records: the defaults under two salts, and records with other values
ParamRecords ==
    {DefaultKeyDerivationParams(RandBytes(n, SaltSize)).params : n \in 1..MaxRand}
    \cup {[DefaultKeyDerivationParams(RandBytes(1, SaltSize)).params
              EXCEPT !.iterations = 4, !.memory = 19 * 1024, !.parallelism = 1]}
    \cup {[algorithm |-> <<>>, iterations |-> 1, memory |-> 8, parallelism |-> 1,
           salt |-> <<>>, keyLength |-> 16]}

Blobs == SeqsUpTo({0, 1, 255}, MaxBlob)

\* Load up to and including the parse of the parameter record
LoadHead(data) ==
    LET split == LoadSplit(data)
    IN  IF split.err # NoErr
        THEN [err |-> split.err, params |-> NoParams, payload |-> <<>>]
        ELSE LET parsed == UnmarshalParams(split.paramsJSON)
             IN  IF parsed.err # NoErr
                 THEN [err |-> parsed.err, params |-> NoParams, payload |-> <<>>]
                 ELSE [err |-> NoErr, params |-> parsed.params, payload |-> split.payload]

InitContainer ==
    /\ kParams \in ParamRecords
    /\ kCipher \in Blobs
    /\ kFile = <<>>
    /\ kAlt = "none"
    /\ kLoad = NoLoad
    /\ kPeek = NoPeek
    /\ kPhase = "start"
    /\ CipherParked
    /\ SysParked
    /\ TotpParked
    /\ UriParked
    /\ TuiParked
    /\ EntParked
    /\ ClipParked
    /\ ReaderParked
    /\ BufParked
    /\ UnlParked
    /\ WatParked
    /\ FrmParked
    /\ MutParked
    /\ ViewParked
    /\ TickParked

ContainerSave ==
    /\ kPhase = "start"
    /\ kFile' = EncodeContainer(MarshalParams(kParams), kCipher)
    /\ kPhase' = "written"
    /\ UNCHANGED <<kParams, kCipher, kAlt, kLoad, kPeek>>
    /\ UNCHANGED notContainer

\* another program rewrites the version field of the file
ContainerSetVersion ==
    /\ kPhase = "written"
    /\ kAlt = "none"
    /\ \E v \in {0, 2, 256, 16777217} :
          kFile' = Take(kFile, 8) \o LE32(v) \o Drop(kFile, 12)
    /\ kAlt' = "version"
    /\ UNCHANGED <<kParams, kCipher, kLoad, kPeek, kPhase>>
    /\ UNCHANGED notContainer

\* another program rewrites one byte of the magic
ContainerSetMagic ==
    /\ kPhase = "written"
    /\ kAlt = "none"
    /\ \E i \in 1..8, b \in {0, 50, 112} :
          /\ kFile[i] # b
          /\ kFile' = [kFile EXCEPT ![i] = b]
    /\ kAlt' = "magic"
    /\ UNCHANGED <<kParams, kCipher, kLoad, kPeek, kPhase>>
    /\ UNCHANGED notContainer

ContainerLoad ==
    /\ kPhase \in {"written", "read"}
    /\ kLoad.err = "none"
    /\ kLoad' = LoadHead(kFile)
    /\ kPhase' = "read"
    /\ UNCHANGED <<kParams, kCipher, kFile, kAlt, kPeek>>
    /\ UNCHANGED notContainer

ContainerLoadParams ==
    /\ kPhase \in {"written", "read"}
    /\ kPeek.err = "none"
    /\ kPeek' = LoadParamsBytes(kFile)
    /\ kPhase' = "read"
    /\ UNCHANGED <<kParams, kCipher, kFile, kAlt, kLoad>>
    /\ UNCHANGED notContainer

NextContainer ==
    \/ ContainerSave
    \/ ContainerSetVersion
    \/ ContainerSetMagic
    \/ ContainerLoad
    \/ ContainerLoadParams

SpecContainer == InitContainer /\ [][NextContainer]_vars

----------------------------------------------------------------------------
(* The process: tui.App or VaultServiceImpl on one vault file *)

\* "CorrectHorse1!" and "WrongPassword"
Passwords ==
    {<<67, 111, 114, 114, 101, 99, 116, 72, 111, 114, 115, 101, 49, 33>>,
     <<87, 114, 111, 110, 103, 80, 97, 115, 115, 119, 111, 114, 100>>}

\* minimum length the login screen accepts for a new vault
MinPasswordLen == 8

\* the entries the editor submits: a login "GitHub" with user name and password,
\* and a secure note without either
EditorEntries(id, t) ==
    {NewEntry(id, EntryTypeLogin, <<71, 105, 116, 72, 117, 98>>,
              <<111, 99, 116, 111>>, <<104, 117, 110, 116, 101, 114, 50>>, t),
     NewEntry(id, EntryTypeSecureNote, <<78, 111, 116, 101>>, <<>>, <<>>, t)}

\* a process starts: NewApp / NewVaultService
Started(front) ==
    /\ impl' = front
    /\ currentScreen' = "login"
    /\ masterKey' = NilKey
    /\ vault' = NoVault
    /\ lastErr' = "none"
    /\ pc' = "idle"
    /\ job' = NoJob
    /\ idSeq' = 0
    /\ sessionPw' = <<>>
    /\ unlock' = NoUnlock
    /\ locked' = FALSE

Init ==
    /\ disk = [path |-> NoFile, tmp |-> NoFile]
    /\ impl \in {"app", "svc"}
    /\ currentScreen = "login"
    /\ masterKey = NilKey
    /\ vault = NoVault
    /\ lastErr = "none"
    /\ pc = "idle"
    /\ job = NoJob
    /\ rng = 0
    /\ now = 0
    /\ idSeq = 0
    /\ sessionPw = <<>>
    /\ onDisk = NothingOnDisk
    /\ unlock = NoUnlock
    /\ locked = FALSE
    /\ CipherParked
    /\ ContainerParked
    /\ TotpParked
    /\ UriParked
    /\ TuiParked
    /\ EntParked
    /\ ClipParked
    /\ ReaderParked
    /\ BufParked
    /\ UnlParked
    /\ WatParked
    /\ FrmParked
    /\ MutParked
    /\ ViewParked
    /\ TickParked

\* the handler has reached os.WriteFile inside Save
EnterSave(caller, buf, v, pw) ==
    /\ pc' = "tmp_open"
    /\ job' = [caller |-> caller, buf |-> buf, before |-> disk.path, vault |-> v, pw |-> pw]

\* App.createVault(password)
AppCreateVault ==
    /\ impl = "app" /\ pc = "idle" /\ currentScreen = "login"
    /\ rng + 2 <= MaxDraws
    /\ \E password \in {p \in Passwords : Len(p) >= MinPasswordLen} :
          LET params == DefaultKeyDerivationParams(RandBytes(rng + 1, SaltSize)).params
              key    == DeriveKey(password, params)
              v      == NewVault(now)
              save   == SaveBuffer(v, key, params, RandBytes(rng + 2, NonceSize))
          IN  /\ masterKey' = key
              /\ vault' = v
              /\ sessionPw' = password
              /\ EnterSave("appCreate", save.buf, v, password)
    /\ rng' = rng + 2
    /\ UNCHANGED <<disk, impl, currentScreen, lastErr, now, idSeq, onDisk, unlock, locked>>
    /\ UNCHANGED notSys

\* App.unlockVault(password)
AppUnlockVault ==
    /\ impl = "app" /\ pc = "idle" /\ currentScreen = "login"
    /\ \E password \in Passwords :
          LET peek   == LoadParams(disk.path)
              key    == DeriveKey(password, peek.params)
              loaded == Load(disk.path, key)
              ok     == peek.err = NoErr /\ loaded.err = NoErr
          IN  /\ unlock' = [impl |-> "app", fresh |-> masterKey = NilKey, pw |-> password,
                            err |-> IF peek.err # NoErr THEN peek.err ELSE loaded.err,
                            vault |-> IF ok THEN loaded.vault ELSE NoVault,
                            derived |-> peek.err = NoErr,
                            keyParams |-> peek.params,
                            fileErr |-> peek.err, fileParams |-> peek.params,
                            saved |-> onDisk]
              /\ lastErr' = IF peek.err # NoErr THEN peek.err ELSE loaded.err
              /\ masterKey' = IF ok THEN key ELSE masterKey
              /\ vault' = IF ok THEN loaded.vault ELSE vault
              /\ sessionPw' = IF ok THEN password ELSE sessionPw
              /\ UNCHANGED locked
              /\ currentScreen' = IF ok THEN "list" ELSE currentScreen
    /\ UNCHANGED <<disk, impl, pc, job, rng, now, idSeq, onDisk>>
    /\ UNCHANGED notSys

\* App.handleSaveEntry(msg): a new entry from the editor, or an entry edited in place
AppSaveEntry ==
    /\ impl = "app" /\ pc = "idle" /\ currentScreen = "list"
    /\ rng + 1 <= MaxDraws
    /\ \E isNew \in BOOLEAN :
          /\ isNew => Len(vault.entries) < MaxEntries
          /\ \E entry \in EditorEntries(GenerateID(idSeq + 1), now) :
                LET v    == IF isNew THEN AddEntry(vault, entry, now) ELSE Update(vault, now)
                    peek == LoadParams(disk.path)
                    save == SaveBuffer(v, masterKey, peek.params, RandBytes(rng + 1, NonceSize))
                IN  /\ vault' = v
                    /\ idSeq' = IF isNew THEN idSeq + 1 ELSE idSeq
                    /\ IF peek.err # NoErr
                       THEN /\ lastErr' = peek.err
                            /\ UNCHANGED <<pc, job, rng>>
                       ELSE IF save.err # NoErr
                       THEN /\ lastErr' = save.err
                            /\ UNCHANGED <<pc, job, rng>>
                       ELSE /\ EnterSave("appSaveEntry", save.buf, v, sessionPw)
                            /\ rng' = rng + 1
                            /\ UNCHANGED lastErr
    /\ UNCHANGED <<disk, impl, currentScreen, masterKey, now, sessionPw, onDisk, unlock, locked>>
    /\ UNCHANGED notSys

\* VaultServiceImpl.CreateVault(masterPassword)
SvcCreateVault ==
    /\ impl = "svc" /\ pc = "idle"
    /\ rng + 2 <= MaxDraws
    /\ \E password \in Passwords :
          LET params == DefaultKeyDerivationParams(RandBytes(rng + 1, SaltSize)).params
              key    == DeriveKey(password, params)
              v      == NewVault(now)
              save   == SaveBuffer(v, key, params, RandBytes(rng + 2, NonceSize))
          IN  /\ masterKey' = key
              /\ sessionPw' = password
              /\ EnterSave("svcCreate", save.buf, v, password)
    /\ rng' = rng + 2
    /\ UNCHANGED <<disk, impl, currentScreen, vault, lastErr, now, idSeq, onDisk, unlock, locked>>
    /\ UNCHANGED notSys

\* VaultServiceImpl.UnlockVault(masterPassword)
SvcUnlockVault ==
    /\ impl = "svc" /\ pc = "idle"
    /\ rng + 1 <= MaxDraws
    /\ \E password \in Passwords :
          LET params == DefaultKeyDerivationParams(RandBytes(rng + 1, SaltSize)).params
              key    == DeriveKey(password, params)
              loaded == Load(disk.path, key)
              peek   == LoadParams(disk.path)
              ok     == loaded.err = NoErr
          IN  /\ unlock' = [impl |-> "svc", fresh |-> masterKey = NilKey, pw |-> password,
                            err |-> loaded.err,
                            vault |-> loaded.vault, derived |-> TRUE,
                            keyParams |-> params,
                            fileErr |-> peek.err, fileParams |-> peek.params,
                            saved |-> onDisk]
              /\ lastErr' = loaded.err
              /\ masterKey' = IF ok THEN key ELSE masterKey
              /\ vault' = IF ok THEN loaded.vault ELSE vault
              /\ sessionPw' = IF ok THEN password ELSE sessionPw
              /\ locked' = IF ok THEN FALSE ELSE locked
    /\ rng' = rng + 1
    /\ UNCHANGED <<disk, impl, currentScreen, pc, job, now, idSeq, onDisk>>
    /\ UNCHANGED notSys

\* the caller of the service adds an entry to the vault it holds
CallerAddEntry ==
    /\ impl = "svc" /\ pc = "idle"
    /\ vault # NoVault
    /\ Len(vault.entries) < MaxEntries
    /\ \E entry \in EditorEntries(GenerateID(idSeq + 1), now) :
          vault' = AddEntry(vault, entry, now)
    /\ idSeq' = idSeq + 1
    /\ UNCHANGED <<disk, impl, currentScreen, masterKey, lastErr, pc, job, rng, now,
                   sessionPw, onDisk, unlock, locked>>
    /\ UNCHANGED notSys

\* VaultServiceImpl.SaveVault(vault)
SvcSaveVault ==
    /\ impl = "svc" /\ pc = "idle"
    /\ vault # NoVault
    /\ rng + 1 <= MaxDraws
    /\ LET peek == LoadParams(disk.path)
           save == SaveBuffer(vault, masterKey, peek.params, RandBytes(rng + 1, NonceSize))
       IN  IF masterKey = NilKey
           THEN /\ lastErr' = ErrVaultLocked
                /\ UNCHANGED <<pc, job, rng>>
           ELSE IF peek.err # NoErr
           THEN /\ lastErr' = peek.err
                /\ UNCHANGED <<pc, job, rng>>
           ELSE IF save.err # NoErr
           THEN /\ lastErr' = save.err
                /\ UNCHANGED <<pc, job, rng>>
           ELSE /\ EnterSave("svcSave", save.buf, vault, sessionPw)
                /\ rng' = rng + 1
                /\ UNCHANGED lastErr
    /\ UNCHANGED <<disk, impl, currentScreen, masterKey, vault, now, idSeq, sessionPw,
                   onDisk, unlock, locked>>
    /\ UNCHANGED notSys

\* VaultServiceImpl.LockVault()
SvcLockVault ==
    /\ impl = "svc" /\ pc = "idle"
    /\ masterKey' = NilKey
    /\ lastErr' = NoErr
    /\ locked' = TRUE
    /\ UNCHANGED <<disk, impl, currentScreen, vault, pc, job, rng, now, idSeq, sessionPw,
                   onDisk, unlock>>
    /\ UNCHANGED notSys

\* what the caller of Save does once Save has returned err
AfterSave(err) ==
    /\ lastErr' = err
    /\ pc' = "idle"
    /\ job' = NoJob
    /\ currentScreen' = IF err = NoErr /\ job.caller \in {"appCreate", "appSaveEntry"}
                        THEN "list" ELSE currentScreen
    /\ vault' = IF err = NoErr /\ job.caller = "svcCreate" THEN job.vault ELSE vault
    /\ locked' = IF err = NoErr /\ job.caller = "svcCreate" THEN FALSE ELSE locked

\* Save that hands r.path to os.WriteFile: the vault file itself is truncated
SaveOpenTarget ==
    /\ pc = "tmp_open"
    /\ disk' = [disk EXCEPT !.path = File(<<>>)]
    /\ pc' = "tmp_write"
    /\ UNCHANGED <<impl, currentScreen, masterKey, vault, lastErr, job, rng, now, idSeq,
                   sessionPw, onDisk, unlock, locked>>
    /\ UNCHANGED notSys

\* os.WriteFile(tempPath, ...): the temp file is created or truncated
SaveOpenTemp ==
    /\ pc = "tmp_open"
    /\ disk' = [disk EXCEPT !.tmp = File(<<>>)]
    /\ pc' = "tmp_write"
    /\ UNCHANGED <<impl, currentScreen, masterKey, vault, lastErr, job, rng, now, idSeq,
                   sessionPw, onDisk, unlock, locked>>
    /\ UNCHANGED notSys

\* os.WriteFile: the first half of the buffer has reached the temp file
SaveWritePart ==
    /\ pc = "tmp_write"
    /\ disk.tmp.data = <<>>
    /\ disk' = [disk EXCEPT !.tmp = File(Take(job.buf, Len(job.buf) \div 2))]
    /\ UNCHANGED <<impl, currentScreen, masterKey, vault, lastErr, pc, job, rng, now, idSeq,
                   sessionPw, onDisk, unlock, locked>>
    /\ UNCHANGED notSys

\* os.WriteFile: the whole buffer has reached the temp file and the file is closed
SaveWriteAll ==
    /\ pc = "tmp_write"
    /\ disk' = [disk EXCEPT !.tmp = File(job.buf)]
    /\ pc' = "rename"
    /\ UNCHANGED <<impl, currentScreen, masterKey, vault, lastErr, job, rng, now, idSeq,
                   sessionPw, onDisk, unlock, locked>>
    /\ UNCHANGED notSys

\* os.WriteFile fails: Save returns the error
SaveWriteFail ==
    /\ pc \in {"tmp_open", "tmp_write"}
    /\ AfterSave(ErrWriteTemp)
    /\ UNCHANGED <<disk, impl, masterKey, rng, now, idSeq, sessionPw, onDisk, unlock>>
    /\ UNCHANGED notSys

\* os.Rename(tempPath, r.path) succeeds: Save returns nil
SaveRename ==
    /\ pc = "rename"
    /\ disk' = [path |-> disk.tmp, tmp |-> NoFile]
    /\ onDisk' = [saved |-> TRUE, buf |-> job.buf, pw |-> job.pw, vault |-> job.vault]
    /\ AfterSave(NoErr)
    /\ UNCHANGED <<impl, masterKey, rng, now, idSeq, sessionPw, unlock>>
    /\ UNCHANGED notSys

\* os.Rename fails: the temp file is removed and Save returns the error
SaveRenameFail ==
    /\ pc = "rename"
    /\ disk' = [disk EXCEPT !.tmp = NoFile]
    /\ AfterSave(ErrRename)
    /\ UNCHANGED <<impl, masterKey, rng, now, idSeq, sessionPw, onDisk, unlock>>
    /\ UNCHANGED notSys

\* os.Rename fails and so does os.Remove, whose error Save drops: the temp file
\* stays and Save returns the rename error
SaveRemoveFail ==
    /\ pc = "rename"
    /\ AfterSave(ErrRename)
    /\ UNCHANGED <<disk, impl, masterKey, rng, now, idSeq, sessionPw, onDisk, unlock>>
    /\ UNCHANGED notSys

\* the process stops, at any point, and a new one is started on the same files
Crash ==
    /\ pc # "parked"
    /\ \E front \in {"app", "svc"} : Started(front)
    /\ UNCHANGED <<disk, rng, now, onDisk>>
    /\ UNCHANGED notSys

\* time passes
Tick ==
    /\ pc = "idle"
    /\ now < MaxTime
    /\ now' = now + 1
    /\ UNCHANGED <<disk, impl, currentScreen, masterKey, vault, lastErr, pc, job, rng, idSeq,
                   sessionPw, onDisk, unlock, locked>>
    /\ UNCHANGED notSys

Next ==
    \/ AppCreateVault
    \/ AppUnlockVault
    \/ AppSaveEntry
    \/ SvcCreateVault
    \/ SvcUnlockVault
    \/ CallerAddEntry
    \/ SvcSaveVault
    \/ SvcLockVault
    \/ SaveOpenTemp
    \/ SaveWritePart
    \/ SaveWriteAll
    \/ SaveWriteFail
    \/ SaveRename
    \/ SaveRenameFail
    \/ SaveRemoveFail
    \/ Crash
    \/ Tick

Spec == Init /\ [][Next]_vars

----------------------------------------------------------------------------
(* TOTP harness: generate a code for a configuration and a time, validate it
   at times a whole number of periods away *)

\* "GEZDGNBVGY3TQOJQGEZDGNBVGY3TQOJQ", the RFC 6238 test secret
RfcSecret ==
    <<71, 69, 90, 68, 71, 78, 66, 86, 71, 89, 51, 84, 81, 79, 74, 81,
      71, 69, 90, 68, 71, 78, 66, 86, 71, 89, 51, 84, 81, 79, 74, 81>>

\* the RFC secret, "jbswy3dpehpk3pxp" and "INVALID!"
TotpSecrets ==
    { RfcSecret,
      <<106, 98, 115, 119, 121, 51, 100, 112, 101, 104, 112, 107, 51, 112, 120, 112>>,
      <<73, 78, 86, 65, 76, 73, 68, 33>> }

TotpPeriods == {15, 30}
TotpDigits == {0, 6, 8, 10}
TotpAlgorithms == {"SHA1", "SHA256", "SHA512", "MD5"}

\* outcomes of an out-of-range float64 to uint32 conversion
Conversions == {"truncate", "saturate"}

\* "000000"
GuessedCode == <<48, 48, 48, 48, 48, 48>>

InitTotp ==
    /\ tCfg \in [secret : TotpSecrets, period : TotpPeriods, digits : TotpDigits,
                 algorithm : TotpAlgorithms]
    /\ tConv \in Conversions
    /\ tAt \in 0..MaxUnix
    /\ tGen = NoCode
    /\ tChk = NoCheck
    /\ tPhase = "start"
    /\ CipherParked
    /\ ContainerParked
    /\ SysParked
    /\ UriParked
    /\ TuiParked
    /\ EntParked
    /\ ClipParked
    /\ ReaderParked
    /\ BufParked
    /\ UnlParked
    /\ WatParked
    /\ FrmParked
    /\ MutParked
    /\ ViewParked
    /\ TickParked

\* code, expiresIn, err := tCfg.GenerateCodeAt(time.Unix(tAt, 0))
TotpGenerateCodeAt ==
    /\ tPhase = "start"
    /\ tGen' = GenerateCodeAt(tCfg, tAt, tConv)
    /\ tPhase' = "generated"
    /\ UNCHANGED <<tCfg, tConv, tAt, tChk>>
    /\ UNCHANGED notTotp

\* the record of a ValidateAt call
Checked(code, at, res) == [code |-> code, at |-> at, ok |-> res.ok, panic |-> res.panic]

\* tCfg.ValidateAt(code, time.Unix(at, 0))
TotpCheck(code, at) ==
    /\ tChk' = Checked(code, at, ValidateAt(tCfg, code, at, tConv))
    /\ tPhase' = "validated"
    /\ UNCHANGED <<tCfg, tConv, tAt, tGen>>
    /\ UNCHANGED notTotp

\* tCfg.ValidateAt(code, ...) with the generated code, steps periods later
TotpValidateAt ==
    /\ tPhase = "generated"
    /\ tGen.err = NoErr
    /\ \E steps \in (0 - MaxSteps)..MaxSteps : TotpCheck(tGen.code, tAt + (steps * tCfg.period))

\* tCfg.ValidateAt("000000", time.Unix(tAt, 0))
TotpValidateGuess ==
    /\ tPhase = "generated"
    /\ TotpCheck(GuessedCode, tAt)

NextTotp ==
    \/ TotpGenerateCodeAt
    \/ TotpValidateAt
    \/ TotpValidateGuess

SpecTotp == InitTotp /\ [][NextTotp]_vars

----------------------------------------------------------------------------
(* otpauth URI harness: a Config through ToURI and ParseURI, and hand-written
   URIs through ParseURI *)

\* characters of an issuer or an account: a letter, ':', ' ', '%', '+', '/'
UriChars == {97, 58, 32, 37, 43, 47}

UriIssuers == SeqsUpTo(UriChars, MaxLabel) \ {<<>>}
UriAccounts == SeqsUpTo(UriChars, 1) \ {<<>>}

\* "A", "+", "%41"
UriSecrets == {<<65>>, <<43>>, <<37, 52, 49>>}

UriPeriods == {30, 60}
UriDigits == {6, 8, -1}
UriAlgorithms == {StrSHA1, StrSHA256, StrSHA512}

UriConfigs ==
    [secret : UriSecrets, issuer : UriIssuers, account : UriAccounts,
     period : UriPeriods, digits : UriDigits, algorithm : UriAlgorithms]

\* a parameter of a hand-written URI: absent, or "key=text"
Absent == [present |-> FALSE, key |-> <<>>, text |-> <<>>]
Param(key, text) == [present |-> TRUE, key |-> key, text |-> text]

\* "otpauth", "OTPAUTH", "http"
RawSchemes == {StrOtpauth, ToUpper(StrOtpauth), <<104, 116, 116, 112>>}
\* "totp", "TOTP", "hotp"
RawHosts == {StrTotp, ToUpper(StrTotp), <<104, 111, 116, 112>>}
\* "", "/a:b"
RawPaths == {<<>>, <<47, 97, 58, 98>>}
\* absent, "secret=", "secret=A"
RawSecrets == {Absent, Param(StrSecret, <<>>), Param(StrSecret, <<65>>)}
\* absent, "period=", "period=60", "period=x", "period=0"
RawPeriods == {Absent, Param(StrPeriod, <<>>), Param(StrPeriod, <<54, 48>>),
               Param(StrPeriod, <<120>>), Param(StrPeriod, <<48>>)}
\* absent, "digits=", "digits=8", "digits=1.5", "digits=0"
RawDigits == {Absent, Param(StrDigits, <<>>), Param(StrDigits, <<56>>),
              Param(StrDigits, <<49, 46, 53>>), Param(StrDigits, <<48>>)}
\* absent, "algorithm=sha256"
RawAlgorithms == {Absent, Param(StrAlgorithm, ToLower(StrSHA256))}

RawParts ==
    {[scheme |-> s, host |-> h, path |-> p, params |-> <<sec, per, dig, alg>>] :
        s \in RawSchemes, h \in RawHosts, p \in RawPaths, sec \in RawSecrets,
        per \in RawPeriods, dig \in RawDigits, alg \in RawAlgorithms}

RECURSIVE RawQuery(_)
\* the parameters that are present, joined by '&'
RawQuery(params) ==
    IF params = <<>> THEN <<>>
    ELSE IF ~Head(params).present THEN RawQuery(Tail(params))
    ELSE Head(params).key \o <<61>> \o Head(params).text
            \o (IF RawQuery(Tail(params)) = <<>> THEN <<>> ELSE <<38>> \o RawQuery(Tail(params)))

\* scheme "://" host path "?" query
RawURI(r) == r.scheme \o <<58, 47, 47>> \o r.host \o r.path \o <<63>> \o RawQuery(r.params)

\* the Unix times the parsed Config is used at
UriTimes == {MaxUnix}

\* Config.Algorithm as the name generateHOTP switches on
AlgorithmName(algorithm) ==
    CASE algorithm = StrSHA1 -> "SHA1"
      [] algorithm = StrSHA256 -> "SHA256"
      [] algorithm = StrSHA512 -> "SHA512"
      [] OTHER -> "other"

\* the Config ParseURI returned, as GenerateCodeAt and ValidateAt read it
ParsedConfig(config) ==
    [secret |-> config.secret, period |-> config.period, digits |-> config.digits,
     algorithm |-> AlgorithmName(config.algorithm)]

InitUri ==
    /\ \/ /\ uCfg \in UriConfigs
          /\ uRaw = NoRaw
          /\ uUri = <<>>
          /\ uPhase = "config"
       \/ /\ uCfg = NoUriConfig
          /\ uRaw \in RawParts
          /\ uUri = RawURI(uRaw)
          /\ uPhase = "uri"
    /\ uOut = NoParse
    /\ uUse = NoUse
    /\ CipherParked
    /\ ContainerParked
    /\ SysParked
    /\ TotpParked
    /\ TuiParked
    /\ EntParked
    /\ ClipParked
    /\ ReaderParked
    /\ BufParked
    /\ UnlParked
    /\ WatParked
    /\ FrmParked
    /\ MutParked
    /\ ViewParked
    /\ TickParked

\* uUri := uCfg.ToURI()
UriToURI ==
    /\ uPhase = "config"
    /\ uUri' = ToURI(uCfg)
    /\ uPhase' = "uri"
    /\ UNCHANGED <<uCfg, uRaw, uOut, uUse>>
    /\ UNCHANGED notUri

\* config, err := totp.ParseURI(uUri)
UriParseURI ==
    /\ uPhase = "uri"
    /\ uOut' = ParseURI(uUri)
    /\ uPhase' = "parsed"
    /\ UNCHANGED <<uCfg, uRaw, uUri, uUse>>
    /\ UNCHANGED notUri

\* _, _, err := config.GenerateCodeAt(time.Unix(t, 0)) on the Config ParseURI returned
UriGenerateCodeAt ==
    /\ uPhase = "parsed"
    /\ uOut.err = NoErr
    /\ \E t \in UriTimes, conv \in Conversions :
          uUse' = [op |-> "GenerateCodeAt", at |-> t,
                   panic |-> GenerateCodeAt(ParsedConfig(uOut.config), t, conv).panic]
    /\ uPhase' = "used"
    /\ UNCHANGED <<uCfg, uRaw, uUri, uOut>>
    /\ UNCHANGED notUri

\* config.ValidateAt("000000", time.Unix(t, 0)) on the Config ParseURI returned
UriValidateAt ==
    /\ uPhase = "parsed"
    /\ uOut.err = NoErr
    /\ \E t \in UriTimes, conv \in Conversions :
          uUse' = [op |-> "ValidateAt", at |-> t,
                   panic |-> ValidateAt(ParsedConfig(uOut.config), GuessedCode, t, conv).panic]
    /\ uPhase' = "used"
    /\ UNCHANGED <<uCfg, uRaw, uUri, uOut>>
    /\ UNCHANGED notUri

NextUri ==
    \/ UriToURI
    \/ UriParseURI
    \/ UriGenerateCodeAt
    \/ UriValidateAt

SpecUri == InitUri /\ [][NextUri]_vars

----------------------------------------------------------------------------
(* Session harness: App.Update under key presses and command messages, the
   VaultServiceImpl calls, and the buffers that hold master keys *)

Keys == {"ctrl+c", "ctrl+q", "esc", "enter", "tab", "ctrl+n", "ctrl+,", "?",
         "ctrl+e", "ctrl+s"}

\* what the password inputs of the login screen hold when Enter is pressed
Typed == {"mismatch", "short", "right", "wrong"}

\* the two passwords, each as the number that stands for its bytes
SessionPasswords == [right |-> 1, wrong |-> 2]

\* the one of "right" and the one of "wrong"
RightPassword == SessionPasswords.right
WrongPassword == SessionPasswords.wrong

\* crypto.DeriveKey for the session harness: one buffer per password and salt
SessionKey(password, salt) == <<password, salt>>

\* a vault file sealed under a key
Sealed(key) == [exists |-> TRUE, key |-> key]

\* the buffer DeriveKey returned, on the heap
Held(bytes) == [bytes |-> bytes, held |-> TRUE]
Dropped(bytes) == [bytes |-> bytes, held |-> FALSE]

InitTui ==
    /\ gFront \in {"app", "svc"}
    /\ gFile \in {NoVaultFile, Sealed(SessionKey(RightPassword, 0))}
    /\ gApp = NewApp(gFile.exists)
    /\ gKey = 0
    /\ gHeap = <<>>
    /\ gInbox = {}
    /\ gClock = 0
    /\ gLastInput = 0
    /\ gTimeout \in {0, 1}
    /\ gSalts = 0
    /\ gOverwrote = FALSE
    /\ CipherParked
    /\ ContainerParked
    /\ SysParked
    /\ TotpParked
    /\ UriParked
    /\ EntParked
    /\ ClipParked
    /\ ReaderParked
    /\ BufParked
    /\ UnlParked
    /\ WatParked
    /\ FrmParked
    /\ MutParked
    /\ ViewParked
    /\ TickParked

Running == gFront = "app" /\ ~gApp.quit

\* the program delivers a key press to App.Update and runs the command it returns
TuiKeyMsg ==
    /\ Running
    /\ \E key \in Keys, typed \in Typed :
          LET r == UpdateKey(gApp, key, typed)
          IN  /\ r.cmd \notin {NoCmd, TeaQuit} => Cardinality(gInbox \cup {r.cmd}) <= MaxInbox
              /\ gApp' = [r.app EXCEPT !.quit = r.cmd = TeaQuit]
              /\ gInbox' = IF r.cmd \in {NoCmd, TeaQuit} THEN gInbox ELSE gInbox \cup {r.cmd}
    /\ gLastInput' = gClock
    /\ UNCHANGED <<gFront, gKey, gHeap, gFile, gClock, gTimeout, gSalts, gOverwrote>>
    /\ UNCHANGED notTui

\* App.Update(BackMsg, EditEntryMsg, NewEntryMsg, CancelEditMsg, SaveSettingsMsg)
TuiScreenMsg ==
    /\ Running
    /\ \E msg \in gInbox \cap {"BackMsg", "EditEntryMsg", "NewEntryMsg", "CancelEditMsg",
                               "SaveSettingsMsg"} :
          /\ gApp' = UpdateMsg(gApp, msg)
          /\ gInbox' = gInbox \ {msg}
    /\ UNCHANGED <<gFront, gKey, gHeap, gFile, gClock, gLastInput, gTimeout, gSalts, gOverwrote>>
    /\ UNCHANGED notTui

\* App.Update(UnlockMsg{IsNew: true}): App.createVault; Save succeeds or fails
TuiCreateVault ==
    /\ Running
    /\ "UnlockMsg{IsNew}" \in gInbox
    /\ Len(gHeap) < MaxKeys
    /\ \E saved \in BOOLEAN :
          LET key == SessionKey(RightPassword, gSalts + 1)
          IN  /\ gHeap' = Append(gHeap, Held(key))
              /\ gKey' = Len(gHeap) + 1
              /\ gFile' = IF saved THEN Sealed(key) ELSE gFile
              /\ gOverwrote' = (gOverwrote \/ (saved /\ gFile.exists))
              /\ gApp' = IF saved THEN [gApp EXCEPT !.currentScreen = "list", !.entries = 0]
                         ELSE gApp
    /\ gSalts' = gSalts + 1
    /\ gInbox' = gInbox \ {"UnlockMsg{IsNew}"}
    /\ UNCHANGED <<gFront, gClock, gLastInput, gTimeout>>
    /\ UNCHANGED notTui

\* App.Update(UnlockMsg{IsNew: false}): App.unlockVault
TuiUnlockVault ==
    /\ Running
    /\ Len(gHeap) < MaxKeys
    /\ \E msg \in gInbox \cap {"UnlockMsg{right}", "UnlockMsg{wrong}"} :
          LET password == IF msg = "UnlockMsg{right}" THEN RightPassword ELSE WrongPassword
              key == SessionKey(password, gFile.key[2])
          IN  /\ gInbox' = gInbox \ {msg}
              /\ IF ~gFile.exists                         \* LoadParams fails
                 THEN UNCHANGED <<gApp, gKey, gHeap>>
                 ELSE IF key # gFile.key                  \* Load fails
                 THEN /\ gHeap' = Append(gHeap, Dropped(key))
                      /\ UNCHANGED <<gApp, gKey>>
                 ELSE /\ gHeap' = Append(gHeap, Held(key))
                      /\ gKey' = Len(gHeap) + 1
                      /\ gApp' = [gApp EXCEPT
                                    !.locker = IF gTimeout > 0
                                               THEN NewAutoLocker(gTimeout, gClock) ELSE @,
                                    !.currentScreen = "list"]
    /\ UNCHANGED <<gFront, gFile, gClock, gLastInput, gTimeout, gSalts, gOverwrote>>
    /\ UNCHANGED notTui

\* App.Update(SaveEntryMsg): App.handleSaveEntry; Save succeeds or fails
TuiSaveEntry ==
    /\ Running
    /\ "SaveEntryMsg" \in gInbox
    /\ \E saved \in BOOLEAN :
          /\ gApp' = IF gFile.exists /\ saved
                     THEN [gApp EXCEPT !.currentScreen = "list", !.entries = 1]
                     ELSE gApp
          /\ gFile' = IF gFile.exists /\ saved THEN Sealed(gHeap[gKey].bytes) ELSE gFile
    /\ gInbox' = gInbox \ {"SaveEntryMsg"}
    /\ UNCHANGED <<gFront, gKey, gHeap, gClock, gLastInput, gTimeout, gSalts, gOverwrote>>
    /\ UNCHANGED notTui

\* a second passes
TuiTick ==
    /\ gFront = "app"
    /\ gClock < MaxClock
    /\ gClock' = gClock + 1
    /\ UNCHANGED <<gFront, gApp, gKey, gHeap, gFile, gInbox, gLastInput, gTimeout, gSalts,
                   gOverwrote>>
    /\ UNCHANGED notTui

\* VaultServiceImpl.CreateVault(masterPassword); Save succeeds or fails
SessCreateVault ==
    /\ gFront = "svc"
    /\ Len(gHeap) < MaxKeys
    /\ \E saved \in BOOLEAN :
          LET key == SessionKey(RightPassword, gSalts + 1)
          IN  /\ gHeap' = Append(gHeap, Held(key))
              /\ gKey' = Len(gHeap) + 1
              /\ gFile' = IF saved THEN Sealed(key) ELSE gFile
    /\ gSalts' = gSalts + 1
    /\ UNCHANGED <<gFront, gApp, gInbox, gClock, gLastInput, gTimeout, gOverwrote>>
    /\ UNCHANGED notTui

\* the key buffer and the reference after VaultServiceImpl.UnlockVault(password):
\* the key is derived under a fresh salt
SessUnlocked(password) ==
    LET key == SessionKey(password, gSalts + 1)
    IN  IF gFile.exists /\ key = gFile.key
        THEN [ok |-> TRUE, heap |-> Append(gHeap, Held(key)), key |-> Len(gHeap) + 1]
        ELSE [ok |-> FALSE, heap |-> Append(gHeap, Dropped(key)), key |-> gKey]

\* VaultServiceImpl.UnlockVault(masterPassword)
SessUnlockVault ==
    /\ gFront = "svc"
    /\ Len(gHeap) < MaxKeys
    /\ \E password \in {RightPassword, WrongPassword} :
          /\ gHeap' = SessUnlocked(password).heap
          /\ gKey' = SessUnlocked(password).key
    /\ gSalts' = gSalts + 1
    /\ UNCHANGED <<gFront, gApp, gFile, gInbox, gClock, gLastInput, gTimeout, gOverwrote>>
    /\ UNCHANGED notTui

\* VaultServiceImpl.LockVault()
SessLockVault ==
    /\ gFront = "svc"
    /\ gKey # 0
    /\ gHeap' = [gHeap EXCEPT ![gKey].bytes = ZeroBytes(@)]
    /\ gKey' = 0
    /\ UNCHANGED <<gFront, gApp, gFile, gInbox, gClock, gLastInput, gTimeout, gSalts,
                   gOverwrote>>
    /\ UNCHANGED notTui

\* VaultServiceImpl.ChangePassword(oldPassword, newPassword, vault); Save succeeds
\* or fails
SessChangePassword ==
    /\ gFront = "svc"
    /\ Len(gHeap) + 1 < MaxKeys
    /\ \E password \in {RightPassword, WrongPassword}, saved \in BOOLEAN :
          LET u == SessUnlocked(password)
              newKey == SessionKey(WrongPassword, gSalts + 2)
          IN  IF ~u.ok
              THEN /\ gHeap' = u.heap
                   /\ gSalts' = gSalts + 1
                   /\ UNCHANGED <<gKey, gFile>>
              ELSE IF ~saved
              THEN /\ gHeap' = Append(u.heap, Dropped(newKey))
                   /\ gKey' = u.key
                   /\ gSalts' = gSalts + 2
                   /\ UNCHANGED gFile
              ELSE /\ gHeap' = Append([u.heap EXCEPT ![u.key].bytes = ZeroBytes(@)],
                                      Held(newKey))
                   /\ gKey' = Len(u.heap) + 1
                   /\ gFile' = Sealed(newKey)
                   /\ gSalts' = gSalts + 2
    /\ UNCHANGED <<gFront, gApp, gInbox, gClock, gLastInput, gTimeout, gOverwrote>>
    /\ UNCHANGED notTui

NextTui ==
    \/ TuiKeyMsg
    \/ TuiScreenMsg
    \/ TuiCreateVault
    \/ TuiUnlockVault
    \/ TuiSaveEntry
    \/ TuiTick
    \/ SessCreateVault
    \/ SessUnlockVault
    \/ SessLockVault
    \/ SessChangePassword

SpecTui == InitTui /\ [][NextTui]_vars

\* the program's event loop hands every pending message to App.Update, and time passes
SpecTuiFair ==
    /\ SpecTui
    /\ WF_vars(TuiScreenMsg)
    /\ WF_vars(TuiCreateVault)
    /\ WF_vars(TuiUnlockVault)
    /\ WF_vars(TuiSaveEntry)
    /\ WF_vars(TuiTick)

----------------------------------------------------------------------------
(* Entries harness: callers of entity.NewEntry, Vault.AddEntry and
   Vault.RemoveEntry, and the editor's save-entry flow *)

InitEnt ==
    /\ eVault = NewVault(0)
    /\ eHeld = {}
    /\ eSeq = 0
    /\ ePhase = "open"
    /\ CipherParked
    /\ ContainerParked
    /\ SysParked
    /\ TotpParked
    /\ UriParked
    /\ TuiParked
    /\ ClipParked
    /\ ReaderParked
    /\ BufParked
    /\ UnlParked
    /\ WatParked
    /\ FrmParked
    /\ MutParked
    /\ ViewParked
    /\ TickParked

\* entry := entity.NewEntry(entryType, name)
EntNewEntry ==
    /\ ePhase = "open"
    /\ eSeq < MaxEntries
    /\ \E entry \in EditorEntries(GenerateID(eSeq + 1), 0) : eHeld' = eHeld \cup {entry}
    /\ eSeq' = eSeq + 1
    /\ UNCHANGED <<eVault, ePhase>>
    /\ UNCHANGED notEnt

\* vault.AddEntry(entry) with an entry the caller holds
EntAddEntry ==
    /\ ePhase = "open"
    /\ Len(eVault.entries) < MaxEntries
    /\ \E entry \in eHeld : eVault' = AddEntry(eVault, entry, 0)
    /\ UNCHANGED <<eHeld, eSeq, ePhase>>
    /\ UNCHANGED notEnt

\* vault.RemoveEntry(id)
EntRemoveEntry ==
    /\ ePhase = "open"
    /\ \E n \in 1..MaxEntries : eVault' = RemoveEntry(eVault, GenerateID(n), 0)
    /\ UNCHANGED <<eHeld, eSeq, ePhase>>
    /\ UNCHANGED notEnt

\* EntryEditorScreen.saveEntry of a new entry, then App.handleSaveEntry
EntSaveNewEntry ==
    /\ ePhase = "open"
    /\ eSeq < MaxEntries
    /\ Len(eVault.entries) < MaxEntries
    /\ \E entry \in EditorEntries(GenerateID(eSeq + 1), 0) : eVault' = AddEntry(eVault, entry, 0)
    /\ eSeq' = eSeq + 1
    /\ UNCHANGED <<eHeld, ePhase>>
    /\ UNCHANGED notEnt

\* EntryEditorScreen.saveEntry of an entry of the vault, edited in place, then
\* App.handleSaveEntry
EntSaveEditedEntry ==
    /\ ePhase = "open"
    /\ \E i \in 1..Len(eVault.entries), edited \in EditorEntries(<<>>, 0) :
          eVault' = Update([eVault EXCEPT !.entries[i].name = edited.name,
                                          !.entries[i].username = edited.username,
                                          !.entries[i].password = edited.password], 0)
    /\ UNCHANGED <<eHeld, eSeq, ePhase>>
    /\ UNCHANGED notEnt

NextEnt ==
    \/ EntNewEntry
    \/ EntAddEntry
    \/ EntRemoveEntry
    \/ EntSaveNewEntry
    \/ EntSaveEditedEntry

SpecEnt == InitEnt /\ [][NextEnt]_vars

----------------------------------------------------------------------------
(* Clipboard harness: clipboard.Manager under CopyWithTimeout, Clear and the
   goroutines of its time.AfterFunc timers.  CopyWithTimeout and Clear run under
   Manager.mu, so each is one step; a timer that fires starts a goroutine that
   calls Clear once it gets the mutex. *)

\* "a", "b"
ClipTexts == {<<97>>, <<98>>}

\* time.AfterFunc(d, f) at time t
AfterFunc(d, t) == [deadline |-> t + d, state |-> "armed"]

\* Timer.Stop(): a timer that has not fired will not fire
StopTimer(timers, i) ==
    IF i # 0 /\ timers[i].state = "armed" THEN [timers EXCEPT ![i].state = "stopped"]
    ELSE timers

\* Manager.CopyWithTimeout(text): the Manager's timer list and timer afterwards
CopyTimers(timers, timer, timeout, t) ==
    IF timeout > 0 THEN Append(StopTimer(timers, timer), AfterFunc(timeout, t))
    ELSE StopTimer(timers, timer)

InitClip ==
    /\ bText = <<>>
    /\ bTimeout \in {0, 1}
    /\ bTimer = 0
    /\ bTimers = <<>>
    /\ bClock = 0
    /\ bLast = NoCall
    /\ CipherParked
    /\ ContainerParked
    /\ SysParked
    /\ TotpParked
    /\ UriParked
    /\ TuiParked
    /\ EntParked
    /\ ReaderParked
    /\ BufParked
    /\ UnlParked
    /\ WatParked
    /\ FrmParked
    /\ MutParked
    /\ ViewParked
    /\ TickParked

\* Manager.CopyWithTimeout(text)
ClipCopyWithTimeout ==
    /\ bClock >= 0
    /\ Len(bTimers) < MaxCopies
    /\ \E text \in ClipTexts :
          /\ bText' = text
          /\ bLast' = [op |-> "copy", text |-> text, at |-> bClock]
    /\ bTimers' = CopyTimers(bTimers, bTimer, bTimeout, bClock)
    /\ bTimer' = IF bTimeout > 0 THEN Len(bTimers) + 1 ELSE bTimer
    /\ UNCHANGED <<bTimeout, bClock>>
    /\ UNCHANGED notClip

\* Manager.Clear() called by the application
ClipClear ==
    /\ bClock >= 0
    /\ bText' = <<>>
    /\ bTimers' = StopTimer(bTimers, bTimer)
    /\ bTimer' = 0
    /\ bLast' = [bLast EXCEPT !.op = "clear"]
    /\ UNCHANGED <<bTimeout, bClock>>
    /\ UNCHANGED notClip

\* the runtime fires a timer whose deadline has come: its goroutine starts
ClipTimerFires ==
    /\ \E i \in 1..Len(bTimers) :
          /\ bTimers[i].state = "armed"
          /\ bTimers[i].deadline <= bClock
          /\ bTimers' = [bTimers EXCEPT ![i].state = "fired"]
    /\ UNCHANGED <<bText, bTimeout, bTimer, bClock, bLast>>
    /\ UNCHANGED notClip

\* the goroutine of a fired timer gets the mutex: m.Clear()
ClipTimerClear ==
    /\ \E i \in 1..Len(bTimers) :
          /\ bTimers[i].state = "fired"
          /\ bTimers' = [StopTimer(bTimers, bTimer) EXCEPT ![i].state = "done"]
    /\ bText' = <<>>
    /\ bTimer' = 0
    /\ bLast' = [bLast EXCEPT !.op = "timer"]
    /\ UNCHANGED <<bTimeout, bClock>>
    /\ UNCHANGED notClip

\* a second passes
ClipTick ==
    /\ bClock >= 0
    /\ bClock < MaxClock
    /\ bClock' = bClock + 1
    /\ UNCHANGED <<bText, bTimeout, bTimer, bTimers, bLast>>
    /\ UNCHANGED notClip

NextClip ==
    \/ ClipCopyWithTimeout
    \/ ClipClear
    \/ ClipTimerFires
    \/ ClipTimerClear
    \/ ClipTick

SpecClip == InitClip /\ [][NextClip]_vars

----------------------------------------------------------------------------
(* Reader harness: FileRepository.Load on files that pass or fail each of its
   checks, in builds with a 32-bit and with a 64-bit int *)

ReaderKey == Fill(KeySize, 0)

\* the magic, and a magic with another last byte
ReaderHeaders == {VaultHeader, [VaultHeader EXCEPT ![8] = 50]}

\* version fields: 1, and versions Load does not support
ReaderVersions == {LE32(VaultVersion), LE32(0), LE32(2)}

ReaderParams == MarshalParams(DefaultKeyDerivationParams(RandBytes(1, SaltSize)).params)

\* what follows the parameter record: nothing, or a vault sealed under ReaderKey
ReaderPayloads ==
    {<<>>, Encrypt(MarshalVault(NewVault(0)), ReaderKey, RandBytes(1, NonceSize)).out}

\* length fields: 0, the length of the record, one more than the file holds past
\* the field, 2^24, 2^31 - 1, 2^31 and 2^32 - 1
ReaderLengths(payload) ==
    {LE32(0), LE32(Len(ReaderParams)), LE32(Len(ReaderParams) + Len(payload) + 1),
     <<0, 0, 0, 1>>, <<255, 255, 255, 127>>, <<0, 0, 0, 128>>, <<255, 255, 255, 255>>}

\* the file may end early: empty, inside the magic, inside and right after the
\* length field, or complete
ReaderCuts == {0, 7, 15, 16, 17}

\* the complete files with payload p
ReaderWhole(p) ==
    {h \o v \o n \o ReaderParams \o p :
        h \in ReaderHeaders, v \in ReaderVersions, n \in ReaderLengths(p)}

ReaderFiles ==
    UNION {ReaderWhole(p) \cup {Take(f, c) : f \in ReaderWhole(p), c \in ReaderCuts} :
              p \in ReaderPayloads}

InitReader ==
    /\ lFile \in ReaderFiles
    /\ lInt \in IntSizes
    /\ lOut = NoOutcome
    /\ lPhase = "ready"
    /\ CipherParked
    /\ ContainerParked
    /\ SysParked
    /\ TotpParked
    /\ UriParked
    /\ TuiParked
    /\ EntParked
    /\ ClipParked
    /\ BufParked
    /\ UnlParked
    /\ WatParked
    /\ FrmParked
    /\ MutParked
    /\ ViewParked
    /\ TickParked

\* Load(key) reads the file and returns
ReaderLoad ==
    /\ lPhase = "ready"
    /\ lOut' = LoadChecked(lFile, ReaderKey, lInt)
    /\ lPhase' = "loaded"
    /\ UNCHANGED <<lFile, lInt>>
    /\ UNCHANGED notReader

NextReader ==
    \/ ReaderLoad

SpecReader == InitReader /\ [][NextReader]_vars

----------------------------------------------------------------------------
(* Buffer harness: the plaintext buffers FileRepository.Save and Load hold,
   as they are when the call returns *)

\* Save(vault, key, kdfParams) where json.Marshal(vault) gave vaultJSON and the
\* file system does io ("ok", "write" fails, "rename" fails): Save's error and
\* its vaultJSON buffer at the return. The deferred ZeroBytes(vaultJSON) is
\* registered after the return for a failed Encrypt.
SaveExit(vaultJSON, key, rnd, io) ==
    IF Encrypt(vaultJSON, key, rnd).err # NoErr
    THEN [err |-> ErrEncrypt, made |-> TRUE, bytes |-> vaultJSON]
    ELSE IF io = "write"
    THEN [err |-> ErrWriteTemp, made |-> TRUE, bytes |-> ZeroBytes(vaultJSON)]
    ELSE IF io = "rename"
    THEN [err |-> ErrRename, made |-> TRUE, bytes |-> ZeroBytes(vaultJSON)]
    ELSE [err |-> NoErr, made |-> TRUE, bytes |-> ZeroBytes(vaultJSON)]

\* Load(key) from crypto.Decrypt(data, key) on: Load's error and its decrypted
\* buffer at the return
LoadExit(payload, key) ==
    IF Decrypt(payload, key).err # NoErr
    THEN [err |-> Decrypt(payload, key).err, made |-> FALSE, bytes |-> <<>>]
    ELSE [err |-> UnmarshalVault(Decrypt(payload, key).out).err, made |-> TRUE,
          bytes |-> ZeroBytes(Decrypt(payload, key).out)]

\* plaintexts: an empty vault, a vault with an entry, and bytes that are no vault
BufPlaintexts ==
    {MarshalVault(NewVault(0)),
     MarshalVault(AddEntry(NewVault(0),
                           NewEntry(GenerateID(1), EntryTypeLogin, <<71>>, <<111>>, <<104>>, 0),
                           0)),
     <<1, 2, 3>>}

BufInputs ==
    [plain : BufPlaintexts,
     key : CipherKeys,
     rnd : {RandBytes(1, NonceSize), RandFail},
     io : {"ok", "write", "rename"},
     loadKey : {Fill(KeySize, 0), [Fill(KeySize, 0) EXCEPT ![1] = 1]}]

InitBuf ==
    /\ zIn \in BufInputs
    /\ zSave = NoBuffers
    /\ zLoad = NoBuffers
    /\ zPhase = "ready"
    /\ CipherParked
    /\ ContainerParked
    /\ SysParked
    /\ TotpParked
    /\ UriParked
    /\ TuiParked
    /\ EntParked
    /\ ClipParked
    /\ ReaderParked
    /\ UnlParked
    /\ WatParked
    /\ FrmParked
    /\ MutParked
    /\ ViewParked
    /\ TickParked

\* Save(vault, key, kdfParams) runs and returns
BufSave ==
    /\ zPhase = "ready"
    /\ zSave' = SaveExit(zIn.plain, zIn.key, zIn.rnd, zIn.io)
    /\ zPhase' = "saved"
    /\ UNCHANGED <<zIn, zLoad>>
    /\ UNCHANGED notBuf

\* Load(key) runs on the payload a Save under zIn.key wrote, and returns
BufLoad ==
    /\ zPhase = "saved"
    /\ zSave.err = NoErr
    /\ zLoad' = LoadExit(Encrypt(zIn.plain, zIn.key, zIn.rnd).out, zIn.loadKey)
    /\ zPhase' = "loaded"
    /\ UNCHANGED <<zIn, zSave>>
    /\ UNCHANGED notBuf

NextBuf ==
    \/ BufSave
    \/ BufLoad

SpecBuf == InitBuf /\ [][NextBuf]_vars

----------------------------------------------------------------------------
(* Unlock harness: App.unlockVault on a vault file whose parameter record was
   written by this program or by anything else *)

\* argon2.IDKey panics on a time or a threads argument below 1
IDKeyPanics(params) == params.iterations < 1 \/ params.parallelism < 1

\* App.unlockVault(password) up to the error it hands to the user
UnlockAttempt(file, password) ==
    IF LoadParams(file).err # NoErr
    THEN [err |-> LoadParams(file).err, keyLen |-> -1, panic |-> FALSE]
    ELSE IF IDKeyPanics(LoadParams(file).params)
    THEN [err |-> "none", keyLen |-> -1, panic |-> TRUE]
    ELSE [err |-> Load(file, DeriveKey(password, LoadParams(file).params)).err,
          keyLen |-> Len(DeriveKey(password, LoadParams(file).params)),
          panic |-> FALSE]

\* the records a file may carry: the defaults, and records with another
\* key_length, iteration count or salt
UnlParams ==
    {[DefaultKeyDerivationParams(RandBytes(n, SaltSize)).params
         EXCEPT !.keyLength = k, !.iterations = t] :
        n \in 1..2, k \in {0, 16, 32, 33}, t \in {0, 3}}

\* what follows the record: a vault sealed under the key of the first password
\* and the record, a vault sealed under another key, or nothing
UnlPayloads(p) ==
    {Encrypt(MarshalVault(NewVault(0)), DeriveKey(CHOOSE pw \in Passwords : TRUE, p),
             RandBytes(1, NonceSize)).out,
     Encrypt(MarshalVault(NewVault(0)), Fill(KeySize, 0), RandBytes(1, NonceSize)).out,
     <<>>}

UnlFiles ==
    UNION {{File(EncodeContainer(MarshalParams(p), c)) : c \in UnlPayloads(p)} :
              p \in UnlParams}

InitUnl ==
    /\ xFile \in UnlFiles
    /\ xPw \in Passwords
    /\ xOut = NoAttempt
    /\ xPhase = "ready"
    /\ CipherParked
    /\ ContainerParked
    /\ SysParked
    /\ TotpParked
    /\ UriParked
    /\ TuiParked
    /\ EntParked
    /\ ClipParked
    /\ ReaderParked
    /\ BufParked
    /\ WatParked
    /\ FrmParked
    /\ MutParked
    /\ ViewParked
    /\ TickParked

\* the user submits the password on the login screen of an existing vault
UnlUnlockVault ==
    /\ xPhase = "ready"
    /\ xOut' = UnlockAttempt(xFile, xPw)
    /\ xPhase' = "done"
    /\ UNCHANGED <<xFile, xPw>>
    /\ UNCHANGED notUnl

NextUnl ==
    \/ UnlUnlockVault

SpecUnl == InitUnl /\ [][NextUnl]_vars

----------------------------------------------------------------------------
(* Auto-lock harness: one AutoLocker; Start, Stop and Reset are called by the
   program's Update loop, each command Start returns runs in a goroutine of its
   own and takes AutoLocker.mu for each tick it looks at *)

\* time.NewTicker(1 * time.Second)
NewTicker == [active |-> TRUE, tick |-> FALSE]

\* the command Start returns, before its goroutine has run
NewCmd == [pc |-> "new", ticker |-> 0, stopped |-> FALSE, late |-> FALSE]

\* every command in existence has now seen a Stop return
AfterStop(cmds) == [i \in 1..Len(cmds) |-> [cmds[i] EXCEPT !.stopped = TRUE]]

\* one second passes: every running ticker puts a tick into its channel
Ticked(tickers) ==
    [i \in 1..Len(tickers) |->
        IF tickers[i].active THEN [tickers[i] EXCEPT !.tick = TRUE] ELSE tickers[i]]

InitWat ==
    /\ wTimeout \in 0..2
    /\ wRunning = FALSE
    /\ wLast = 0
    /\ wTicker = 0
    /\ wTickers = <<>>
    /\ wCmds = <<>>
    /\ wClock = 0
    /\ wStops = 0
    /\ CipherParked
    /\ ContainerParked
    /\ SysParked
    /\ TotpParked
    /\ UriParked
    /\ TuiParked
    /\ EntParked
    /\ ClipParked
    /\ ReaderParked
    /\ BufParked
    /\ UnlParked
    /\ FrmParked
    /\ MutParked
    /\ ViewParked
    /\ TickParked

\* Start() where it returns a command: timeout is not 0 and running is false
WatStart ==
    /\ wClock >= 0
    /\ wTimeout # 0
    /\ ~wRunning
    /\ Len(wCmds) < MaxStarts
    /\ wRunning' = TRUE
    /\ wLast' = wClock
    /\ wTickers' = Append(wTickers, NewTicker)
    /\ wTicker' = Len(wTickers) + 1
    /\ wCmds' = Append(wCmds, NewCmd)
    /\ UNCHANGED <<wTimeout, wClock, wStops>>
    /\ UNCHANGED notWat

\* Stop()
WatStop ==
    /\ wClock >= 0
    /\ wStops < MaxStops
    /\ IF ~wRunning
       THEN UNCHANGED <<wRunning, wTickers>>
       ELSE /\ wRunning' = FALSE
            /\ wTickers' = IF wTicker # 0
                           THEN [wTickers EXCEPT ![wTicker].active = FALSE]
                           ELSE wTickers
    /\ wCmds' = AfterStop(wCmds)
    /\ wStops' = wStops + 1
    /\ UNCHANGED <<wTimeout, wLast, wTicker, wClock>>
    /\ UNCHANGED notWat

\* Reset()
WatReset ==
    /\ wClock >= 0
    /\ wLast # wClock
    /\ wLast' = wClock
    /\ UNCHANGED <<wTimeout, wRunning, wTicker, wTickers, wCmds, wClock, wStops>>
    /\ UNCHANGED notWat

\* the goroutine of a command starts: `for range a.ticker.C` takes the channel
\* of the ticker a.ticker points at then
WatCmdBegin ==
    /\ \E i \in 1..Len(wCmds) :
          /\ wCmds[i].pc = "new"
          /\ wCmds' = [wCmds EXCEPT ![i].pc = "waiting", ![i].ticker = wTicker]
    /\ UNCHANGED <<wTimeout, wRunning, wLast, wTicker, wTickers, wClock, wStops>>
    /\ UNCHANGED notWat

\* a goroutine receives a tick and, holding a.mu, looks at running and at the
\* time since lastActivity; it releases a.mu before it returns or calls back
WatCmdTick ==
    /\ \E i \in 1..Len(wCmds) :
          /\ wCmds[i].pc = "waiting"
          /\ wTickers[wCmds[i].ticker].tick
          /\ wTickers' = [wTickers EXCEPT ![wCmds[i].ticker].tick = FALSE]
          /\ wCmds' = [wCmds EXCEPT ![i].pc =
                          IF ~wRunning THEN "returned"
                          ELSE IF wClock - wLast >= wTimeout THEN "calling"
                          ELSE "waiting"]
    /\ UNCHANGED <<wTimeout, wRunning, wLast, wTicker, wClock, wStops>>
    /\ UNCHANGED notWat

\* return a.lockCallback(): the callback runs, a.mu no longer held
WatCmdFire ==
    /\ \E i \in 1..Len(wCmds) :
          /\ wCmds[i].pc = "calling"
          /\ wCmds' = [wCmds EXCEPT ![i].pc = "fired", ![i].late = wCmds[i].stopped]
    /\ UNCHANGED <<wTimeout, wRunning, wLast, wTicker, wTickers, wClock, wStops>>
    /\ UNCHANGED notWat

\* a second passes
WatTick ==
    /\ wClock >= 0
    /\ wClock < MaxTicks
    /\ wClock' = wClock + 1
    /\ wTickers' = Ticked(wTickers)
    /\ UNCHANGED <<wTimeout, wRunning, wLast, wTicker, wCmds, wStops>>
    /\ UNCHANGED notWat

NextWat ==
    \/ WatStart
    \/ WatStop
    \/ WatReset
    \/ WatCmdBegin
    \/ WatCmdTick
    \/ WatCmdFire
    \/ WatTick

SpecWat == InitWat /\ [][NextWat]_vars

----------------------------------------------------------------------------
(* Form harness: the new-vault form of the login screen and the entry editor,
   with texts given as sequences of Unicode code points *)

\* the number of bytes of the UTF-8 encoding of code point r
Utf8Len(r) == IF r < 128 THEN 1 ELSE IF r < 2048 THEN 2 ELSE IF r < 65536 THEN 3 ELSE 4

\* len(s) of a Go string: the number of bytes of its UTF-8 encoding
RECURSIVE ByteLen(_)
ByteLen(s) == IF s = <<>> THEN 0 ELSE Utf8Len(Head(s)) + ByteLen(Tail(s))

\* LoginScreen.Update on Enter: the screen after it and the message of the
\* command it returns
LoginEnter(s) ==
    IF s.isNewVault
    THEN IF s.step = 0
         THEN [screen |-> [s EXCEPT !.step = 1], msg |-> "none"]
         ELSE IF s.password # s.confirm
         THEN [screen |-> [s EXCEPT !.error = "Passwords do not match", !.step = 0,
                                    !.password = <<>>, !.confirm = <<>>],
               msg |-> "none"]
         ELSE IF ByteLen(s.password) < MinPasswordLen
         THEN [screen |-> [s EXCEPT !.error = "Password must be at least 8 characters",
                                    !.step = 0, !.password = <<>>, !.confirm = <<>>],
               msg |-> "none"]
         ELSE [screen |-> s, msg |-> "UnlockMsg{IsNew}"]
    ELSE [screen |-> s, msg |-> "UnlockMsg"]

\* EntryEditorScreen.saveEntry: the entry the editor holds after it and the
\* message of the command it returns
SaveEntry(ed, entry) ==
    IF ed.name = <<>>
    THEN [entry |-> entry, msg |-> "ShowErrorMsg"]
    ELSE IF ed.isNew
    THEN [entry |-> entry, msg |-> "SaveEntryMsg{IsNew}"]
    ELSE [entry |-> [name |-> ed.name, updates |-> entry.updates + 1],
          msg |-> "SaveEntryMsg"]

\* "é" and "a"
FormRunes == {233, 97}

\* passwords of 0, 4, 7 and 8 code points
FormPasswords ==
    {<<>>} \cup {Fill(n, r) : n \in {4, 7, 8}, r \in FormRunes}

\* "", "a" and "Mail"
FormNames == {<<>>, <<97>>, <<77, 97, 105, 108>>}

OldEntry == [name |-> <<71>>, updates |-> 0]

InitFrm ==
    /\ fScreen \in {"login", "editor"}
    /\ fLogin = [isNewVault |-> TRUE, step |-> 0, password |-> <<>>, confirm |-> <<>>,
                 error |-> ""]
    /\ fEditor \in [isNew : BOOLEAN, name : {OldEntry.name}]
    /\ fEntry = OldEntry
    /\ fVault = IF fScreen = "login" THEN <<>> ELSE <<OldEntry.name>>
    /\ fFile = IF fScreen = "login" THEN <<>> ELSE <<Fill(8, 97)>>
    /\ fMsg = "none"
    /\ fBefore = NoSubmit
    /\ CipherParked
    /\ ContainerParked
    /\ SysParked
    /\ TotpParked
    /\ UriParked
    /\ TuiParked
    /\ EntParked
    /\ ClipParked
    /\ ReaderParked
    /\ BufParked
    /\ UnlParked
    /\ WatParked
    /\ MutParked
    /\ ViewParked
    /\ TickParked

\* the user fills in the password input, presses Enter and fills in the
\* confirmation input
FrmTypePasswords ==
    /\ fScreen = "login" /\ fMsg = "none"
    /\ fLogin.step = 0
    /\ \E p \in FormPasswords, c \in FormPasswords :
          fLogin' = [LoginEnter([fLogin EXCEPT !.password = p]).screen EXCEPT !.confirm = c]
    /\ UNCHANGED <<fScreen, fEditor, fEntry, fVault, fFile, fMsg, fBefore>>
    /\ UNCHANGED notFrm

\* Enter on the confirmation input
FrmLoginSubmit ==
    /\ fScreen = "login" /\ fMsg = "none"
    /\ fLogin.step = 1
    /\ fBefore' = [form |-> "login", a |-> fLogin.password, b |-> fLogin.confirm,
                   entry |-> fEntry, vault |-> fVault, file |-> fFile]
    /\ fLogin' = LoginEnter(fLogin).screen
    /\ fMsg' = LoginEnter(fLogin).msg
    /\ UNCHANGED <<fScreen, fEditor, fEntry, fVault, fFile>>
    /\ UNCHANGED notFrm

\* the user edits the name input of the editor
FrmTypeName ==
    /\ fScreen = "editor" /\ fMsg = "none"
    /\ \E n \in FormNames :
          /\ n # fEditor.name
          /\ fEditor' = [fEditor EXCEPT !.name = n]
    /\ UNCHANGED <<fScreen, fLogin, fEntry, fVault, fFile, fMsg, fBefore>>
    /\ UNCHANGED notFrm

\* Ctrl+S in the editor
FrmEditorSubmit ==
    /\ fScreen = "editor" /\ fMsg = "none"
    /\ fBefore' = [form |-> "editor", a |-> fEditor.name, b |-> <<>>,
                   entry |-> fEntry, vault |-> fVault, file |-> fFile]
    /\ fEntry' = SaveEntry(fEditor, fEntry).entry
    /\ fMsg' = IF SaveEntry(fEditor, fEntry).msg = "ShowErrorMsg"
               THEN "none" ELSE SaveEntry(fEditor, fEntry).msg
    /\ UNCHANGED <<fScreen, fLogin, fEditor, fVault, fFile>>
    /\ UNCHANGED notFrm

\* App.Update on the message: createVault writes the vault file, handleSaveEntry
\* adds or keeps the entry and saves; both go to the vault list
FrmDeliver ==
    /\ fMsg # "none"
    /\ fFile' = IF fMsg = "UnlockMsg{IsNew}" THEN <<fLogin.password>> ELSE fFile
    /\ fVault' = IF fMsg = "UnlockMsg{IsNew}" THEN <<>>
                 ELSE IF fMsg = "SaveEntryMsg{IsNew}" THEN Append(fVault, fEditor.name)
                 ELSE <<fEntry.name>>
    /\ fScreen' = "list"
    /\ fMsg' = "none"
    /\ UNCHANGED <<fLogin, fEditor, fEntry, fBefore>>
    /\ UNCHANGED notFrm

NextFrm ==
    \/ FrmTypePasswords
    \/ FrmLoginSubmit
    \/ FrmTypeName
    \/ FrmEditorSubmit
    \/ FrmDeliver

SpecFrm == InitFrm /\ [][NextFrm]_vars

----------------------------------------------------------------------------
(* Vault harness: AddEntry, RemoveEntry, AddFolder, RemoveFolder and
   Entry.UpdateAccessTime on a vault that was loaded from its file, each
   reading time.Now() *)

\* NewFolder(name, parentID)
NewFolder(id, name, parentID, t) ==
    [id |-> id, name |-> name, parentID |-> parentID, createdAt |-> t]

\* Vault.AddFolder(folder)
AddFolder(v, folder, t) == [v EXCEPT !.folders = Append(v.folders, folder), !.updatedAt = t]

\* Vault.RemoveFolder(id): the first folder with that ID is cut out
RemoveFolder(v, id, t) ==
    IF \E i \in 1..Len(v.folders) : v.folders[i].id = id
    THEN LET i == CHOOSE k \in 1..Len(v.folders) :
                    /\ v.folders[k].id = id
                    /\ \A j \in 1..(k - 1) : v.folders[j].id # id
         IN  [v EXCEPT !.folders = SubSeq(v.folders, 1, i - 1)
                                    \o SubSeq(v.folders, i + 1, Len(v.folders)),
                       !.updatedAt = t]
    ELSE v

\* Entry.UpdateAccessTime()
UpdateAccessTime(e, t) == [e EXCEPT !.accessedAt = t]

\* an entry as NewEntry makes it, with its AccessedAt
MutEntry(n, t) ==
    [id |-> GenerateID(n), type |-> EntryTypeLogin, name |-> <<78>>, username |-> <<>>,
     password |-> <<>>, createdAt |-> t, updatedAt |-> t, accessedAt |-> 0]

\* a vault as Load returns it: created at c, last updated at u
MutVault(c, u) ==
    [version |-> VaultSchema, entries |-> <<>>, folders |-> <<>>,
     createdAt |-> c, updatedAt |-> u]

InitMut ==
    /\ \E c \in 0..MaxWall, u \in 0..MaxWall :
          /\ c <= u
          /\ mVault = MutVault(c, u)
    /\ mClock \in 0..MaxWall
    /\ mLast = NoMutation
    /\ CipherParked
    /\ ContainerParked
    /\ SysParked
    /\ TotpParked
    /\ UriParked
    /\ TuiParked
    /\ EntParked
    /\ ClipParked
    /\ ReaderParked
    /\ BufParked
    /\ UnlParked
    /\ WatParked
    /\ FrmParked
    /\ ViewParked
    /\ TickParked

Called(op, ok, i) == [op |-> op, ok |-> ok, i |-> i, before |-> mVault, at |-> mClock]

\* vault.AddEntry(entity.NewEntry(...))
MutAddEntry ==
    /\ mClock >= 0
    /\ Len(mVault.entries) < MaxEntries
    /\ \E n \in 1..MaxEntries :
          /\ \A i \in 1..Len(mVault.entries) : mVault.entries[i].id # GenerateID(n)
          /\ mVault' = AddEntry(mVault, MutEntry(n, mClock), mClock)
    /\ mLast' = Called("AddEntry", TRUE, 0)
    /\ UNCHANGED mClock
    /\ UNCHANGED notMut

\* vault.RemoveEntry(id)
MutRemoveEntry ==
    /\ mClock >= 0
    /\ \E n \in 1..MaxEntries :
          /\ mVault' = RemoveEntry(mVault, GenerateID(n), mClock)
          /\ mLast' = Called("RemoveEntry",
                             \E i \in 1..Len(mVault.entries) :
                                 mVault.entries[i].id = GenerateID(n), 0)
    /\ UNCHANGED mClock
    /\ UNCHANGED notMut

\* vault.AddFolder(entity.NewFolder(...))
MutAddFolder ==
    /\ mClock >= 0
    /\ Len(mVault.folders) < MaxFolders
    /\ mVault' = AddFolder(mVault, NewFolder(GenerateID(Len(mVault.folders) + 1), <<87>>,
                                             <<>>, mClock), mClock)
    /\ mLast' = Called("AddFolder", TRUE, 0)
    /\ UNCHANGED mClock
    /\ UNCHANGED notMut

\* vault.RemoveFolder(id)
MutRemoveFolder ==
    /\ mClock >= 0
    /\ \E n \in 1..MaxFolders :
          /\ mVault' = RemoveFolder(mVault, GenerateID(n), mClock)
          /\ mLast' = Called("RemoveFolder",
                             \E i \in 1..Len(mVault.folders) :
                                 mVault.folders[i].id = GenerateID(n), 0)
    /\ UNCHANGED mClock
    /\ UNCHANGED notMut

\* entry.UpdateAccessTime() on an entry of the vault
MutUpdateAccessTime ==
    /\ mClock >= 0
    /\ \E i \in 1..Len(mVault.entries) :
          /\ mVault' = [mVault EXCEPT !.entries[i] = UpdateAccessTime(mVault.entries[i], mClock)]
          /\ mLast' = Called("UpdateAccessTime", TRUE, i)
    /\ UNCHANGED mClock
    /\ UNCHANGED notMut

\* the wall clock moves: time passes, or the system clock is set
MutClock ==
    /\ mClock >= 0
    /\ \E t \in 0..MaxWall :
          /\ t # mClock
          /\ mClock' = t
    /\ UNCHANGED <<mVault, mLast>>
    /\ UNCHANGED notMut

NextMut ==
    \/ MutAddEntry
    \/ MutRemoveEntry
    \/ MutAddFolder
    \/ MutRemoveFolder
    \/ MutUpdateAccessTime
    \/ MutClock

SpecMut == InitMut /\ [][NextMut]_vars

----------------------------------------------------------------------------
(* Login harness: App.unlockVault on a vault file that is sealed under the right
   password, damaged or unreadable, the errMsg its commands deliver, and what
   App.View renders *)

ErrLoadParamsMsg == "failed to load vault params"
ErrUnlockMsg == "failed to unlock vault (wrong password?)"

\* the App on the login screen of an existing vault
LoginApp ==
    [currentScreen |-> "login", masterKey |-> NilKey, vault |-> FALSE, vaultList |-> FALSE,
     err |-> "nil"]

\* App.unlockVault(password): LoadParams, DeriveKey, Load; a failure returns the
\* command that delivers an errMsg
unlockVault(a, file, password) ==
    IF file = "unreadable" THEN Handled(a, ErrLoadParamsMsg)
    ELSE IF file = "damaged" \/ password # RightPassword THEN Handled(a, ErrUnlockMsg)
    ELSE Handled([a EXCEPT !.masterKey = SessionKey(password, 0), !.vault = TRUE,
                           !.currentScreen = "list", !.vaultList = TRUE], NoCmd)

\* App.Update(errMsg)
UpdateErrMsg(a, err) == [a EXCEPT !.err = err]

\* App.View(): the text of a.err while it is set, else the view of the current screen
View(a) ==
    IF a.err # "nil" THEN a.err
    ELSE IF a.currentScreen = "login" THEN "login"
    ELSE IF a.currentScreen = "list" /\ a.vaultList THEN "list"
    ELSE ""

InitView ==
    /\ vApp = LoginApp
    /\ vFile \in {"sealed", "damaged", "unreadable"}
    /\ vInbox = {}
    /\ vTries = 0
    /\ vLast = NoTry
    /\ CipherParked
    /\ ContainerParked
    /\ SysParked
    /\ TotpParked
    /\ UriParked
    /\ TuiParked
    /\ EntParked
    /\ ClipParked
    /\ ReaderParked
    /\ BufParked
    /\ UnlParked
    /\ WatParked
    /\ FrmParked
    /\ MutParked
    /\ TickParked

\* Enter on the login screen: App.Update(UnlockMsg{Password, IsNew: false})
ViewUnlockVault ==
    /\ vTries \in 0..(MaxTries - 1)
    /\ vApp.currentScreen = "login"
    /\ \E password \in {RightPassword, WrongPassword} :
          /\ vApp' = unlockVault(vApp, vFile, password).app
          /\ vInbox' = vInbox \cup ({unlockVault(vApp, vFile, password).cmd} \ {NoCmd})
          /\ vLast' = [pw |-> password, ok |-> unlockVault(vApp, vFile, password).cmd = NoCmd]
    /\ vTries' = vTries + 1
    /\ UNCHANGED vFile
    /\ UNCHANGED notView

\* the program delivers an errMsg to App.Update
ViewErrMsg ==
    /\ vTries >= 0
    /\ \E err \in vInbox :
          /\ vApp' = UpdateErrMsg(vApp, err)
          /\ vInbox' = vInbox \ {err}
    /\ UNCHANGED <<vFile, vTries, vLast>>
    /\ UNCHANGED notView

\* the vault file is restored, damaged or made unreadable
ViewFile ==
    /\ vTries >= 0
    /\ vFile' \in {"sealed", "damaged", "unreadable"} \ {vFile}
    /\ UNCHANGED <<vApp, vInbox, vTries, vLast>>
    /\ UNCHANGED notView

NextView ==
    \/ ViewUnlockVault
    \/ ViewErrMsg
    \/ ViewFile

SpecView == InitView /\ [][NextView]_vars

----------------------------------------------------------------------------
(* Tick harness: the one-second tick commands of the vault list and the entry
   detail screen, the keys that move between list, detail and editor, and the
   routing of tickMsg to the current screen *)

NoTotp == -1

\* the App on the vault list after unlockVault; vaultList.Init() has returned one tick command
ListApp == [currentScreen |-> "list", previousScreen |-> "login", totpAt |-> NoTotp]

Routed(a, cmds) == [app |-> a, cmds |-> cmds]

\* EntryDetailScreen.updateTOTP() at second t
updateTOTP(a, t) == [a EXCEPT !.totpAt = t]

\* Enter on the vault list: NewEntryDetailScreen and EntryDetailScreen.Init(),
\* which returns one tick command
DetailInit(a, secret, t) ==
    Routed(IF secret THEN updateTOTP([a EXCEPT !.currentScreen = "detail"], t)
           ELSE [a EXCEPT !.currentScreen = "detail", !.totpAt = NoTotp], 1)

\* App.Update(tickMsg): routed to the current screen; the list and the detail
\* screen return the next tick command, the editor returns none
UpdateTick(a, secret, t) ==
    CASE a.currentScreen = "list" -> Routed(a, 1)
      [] a.currentScreen = "detail" -> Routed(IF secret THEN updateTOTP(a, t) ELSE a, 1)
      [] OTHER -> Routed(a, 0)

\* App.handleSaveEntry once Save has returned: a new vault list and its Init()
handleSaveEntry(a, saved) ==
    IF saved THEN Routed([a EXCEPT !.currentScreen = "list"], 1) ELSE Routed(a, 0)

InitTick ==
    /\ dApp = ListApp
    /\ dSecret \in BOOLEAN
    /\ dPending = 1
    /\ dDue = 0
    /\ dInbox = {}
    /\ dClock = 0
    /\ dLost = 0
    /\ CipherParked
    /\ ContainerParked
    /\ SysParked
    /\ TotpParked
    /\ UriParked
    /\ TuiParked
    /\ EntParked
    /\ ClipParked
    /\ ReaderParked
    /\ BufParked
    /\ UnlParked
    /\ WatParked
    /\ FrmParked
    /\ MutParked
    /\ ViewParked

\* Enter on the vault list with an entry selected
TickOpenDetail ==
    /\ dClock >= 0
    /\ dApp.currentScreen = "list"
    /\ dPending + dDue < MaxPending
    /\ dApp' = DetailInit(dApp, dSecret, dClock).app
    /\ dPending' = dPending + DetailInit(dApp, dSecret, dClock).cmds
    /\ UNCHANGED <<dSecret, dDue, dInbox, dClock, dLost>>
    /\ UNCHANGED notTick

\* a key on the detail screen, the editor or the list, whose command returns a message
TickKeyMsg ==
    /\ dClock >= 0
    /\ \E key \in {"esc", "ctrl+e", "ctrl+s", "ctrl+n"} :
          \E cmd \in {(CASE dApp.currentScreen = "detail" -> DetailKey(dApp, key)
                         [] dApp.currentScreen = "editor" -> EditorKey(dApp, key)
                         [] OTHER -> ListKey(dApp @@ [entries |-> 1], key)).cmd} \ {NoCmd} :
             dInbox' = dInbox \cup {cmd}
    /\ dInbox' # dInbox
    /\ UNCHANGED <<dApp, dSecret, dPending, dDue, dClock, dLost>>
    /\ UNCHANGED notTick

\* App.Update(BackMsg, EditEntryMsg, NewEntryMsg, CancelEditMsg)
TickScreenMsg ==
    /\ dClock >= 0
    /\ \E msg \in dInbox \cap {"BackMsg", "EditEntryMsg", "NewEntryMsg", "CancelEditMsg"} :
          /\ dApp' = UpdateMsg(dApp, msg)
          /\ dInbox' = dInbox \ {msg}
    /\ UNCHANGED <<dSecret, dPending, dDue, dClock, dLost>>
    /\ UNCHANGED notTick

\* App.Update(SaveEntryMsg): App.handleSaveEntry; Save succeeds or fails
TickSaveEntry ==
    /\ dClock >= 0
    /\ "SaveEntryMsg" \in dInbox
    /\ dPending + dDue < MaxPending
    /\ \E saved \in BOOLEAN :
          /\ dApp' = handleSaveEntry(dApp, saved).app
          /\ dPending' = dPending + handleSaveEntry(dApp, saved).cmds
    /\ dInbox' = dInbox \ {"SaveEntryMsg"}
    /\ UNCHANGED <<dSecret, dDue, dClock, dLost>>
    /\ UNCHANGED notTick

\* a tick command returns tickMsg and App.Update routes it to the current screen
TickMsg ==
    /\ dDue > 0
    /\ dApp' = UpdateTick(dApp, dSecret, dClock).app
    /\ dDue' = dDue - 1
    /\ dPending' = dPending + UpdateTick(dApp, dSecret, dClock).cmds
    /\ dLost' = IF dApp.currentScreen = "editor" THEN dLost + 1 ELSE dLost
    /\ UNCHANGED <<dSecret, dInbox, dClock>>
    /\ UNCHANGED notTick

\* a second passes, once the program has handled all it had to: every ticker ticks
TickSecond ==
    /\ dClock \in 0..(MaxSeconds - 1)
    /\ dDue = 0
    /\ dInbox = {}
    /\ dClock' = dClock + 1
    /\ dDue' = dPending
    /\ dPending' = 0
    /\ UNCHANGED <<dApp, dSecret, dInbox, dLost>>
    /\ UNCHANGED notTick

NextTick ==
    \/ TickOpenDetail
    \/ TickKeyMsg
    \/ TickScreenMsg
    \/ TickSaveEntry
    \/ TickMsg
    \/ TickSecond

SpecTick == InitTick /\ [][NextTick]_vars

----------------------------------------------------------------------------
(* Properties of the cipher *)

\* Decrypt has returned for a blob sealed under a 32-byte key
Opened == cPhase = "opened"

\* C4: a blob Encrypt produced under a 32-byte key, handed unaltered to
\* Decrypt with the same key, decrypts without error to the plaintext that
\* was encrypted, the empty plaintext included.
CipherRoundTrip ==
    (Opened /\ cMut = "none" /\ cDecKey = cEncKey) =>
        (cDec.err = NoErr /\ cDec.out = cPlain)

CipherRoundTripWitness ==
    /\ Opened /\ cMut = "none" /\ cDecKey = cEncKey
    /\ Len(cPlain) = MaxPlain
    /\ cDec.out = cPlain

\* C7 as stated: under a 32-byte key every altered blob and every wrong key
\* makes Decrypt fail, and all those failures carry one and the same error.
SingleGenericFailure ==
    /\ (Opened /\ Len(cDecKey) = KeySize /\ BadInput(cMut, cEncKey, cDecKey)) =>
           cDec.err # NoErr
    /\ Cardinality(cBadErrs) <= 1

\* C7 as amended: under a 32-byte key every altered blob and every wrong key
\* makes Decrypt fail; the error is "ciphertext too short" exactly when the
\* blob is shorter than the 12-byte nonce, whatever the key, and is the one
\* "decryption failed" error in every other case (bit flip, truncation to 12
\* bytes or more, wrong key).
DecryptFailureClasses ==
    (Opened /\ Len(cDecKey) = KeySize /\ BadInput(cMut, cEncKey, cDecKey)) =>
        /\ cDec.err = (IF Len(cBlob) < NonceSize THEN ErrTooShort ELSE ErrDecryptionFailed)
        /\ cDec.out = <<>>
        /\ cBadErrs \subseteq {ErrTooShort, ErrDecryptionFailed}

DecryptFailureClassesWitness ==
    /\ Opened /\ cMut = "trunc" /\ Len(cBlob) < NonceSize
    /\ Len(cDecKey) = KeySize
    /\ cBadErrs = {ErrTooShort, ErrDecryptionFailed}

\* C8: with a key that is not 32 bytes long Encrypt and Decrypt return the
\* invalid-key-size error and reach no primitive: no cipher is built, no
\* randomness is read and the data argument plays no part, not even its length.
KeySizeValidation ==
    /\ (cEnc.err # "none" /\ Len(cEncKey) # KeySize) =>
           (cEnc.err = ErrInvalidKeySize /\ cEnc.calls = <<>> /\ cEnc.out = <<>>)
    /\ (Opened /\ Len(cDecKey) # KeySize) =>
           (cDec.err = ErrInvalidKeySize /\ cDec.calls = <<>> /\ cDec.out = <<>>)
    /\ (cEnc.err = ErrInvalidKeySize) => Len(cEncKey) # KeySize
    /\ (cDec.err = ErrInvalidKeySize) => Len(cDecKey) # KeySize

KeySizeValidationWitness ==
    /\ Opened /\ Len(cDecKey) = 16 /\ Len(cBlob) < NonceSize
    /\ cDec.err = ErrInvalidKeySize

----------------------------------------------------------------------------
(* Properties of the container codec *)

VersionGate ==
    /\ (kAlt # "none" /\ kLoad.err # "none") => kLoad.err # NoErr
    /\ (kAlt # "none" /\ kPeek.err # "none") => kPeek.err # NoErr

----------------------------------------------------------------------------
(* Properties of the process on the vault file *)

\* Save is between its first write to the file system and the rename
InSave == pc \in {"tmp_open", "tmp_write", "rename"}

\* C1: Save is atomic at the vault path.  While Save runs and until the
\* rename, and in whatever state a stop of the process leaves the disk, the
\* file at path is what it was before Save began (or still absent); after
\* the rename it is the complete buffer of that Save.  The file at path is
\* never an empty or partly written buffer.
AtomicSave ==
    /\ InSave => disk.path = job.before
    /\ disk.path = (IF onDisk.saved THEN File(onDisk.buf) ELSE NoFile)
    /\ disk.path.exists =>
          /\ Len(disk.path.data) > 16
          /\ LoadSplit(disk.path.data).err = NoErr

\* the process stopped while the temp file was half written, over an existing vault
AtomicSaveWitness ==
    /\ pc = "idle" /\ lastErr = "none" /\ job = NoJob
    /\ disk.path.exists
    /\ disk.tmp.exists
    /\ disk.tmp.data # <<>>
    /\ LoadSplit(disk.tmp.data).err = NoErr
    /\ Load(disk.tmp, DeriveKey(onDisk.pw, LoadParams(disk.tmp).params)).err = ErrDecryptionFailed
    /\ disk.path = File(onDisk.buf)

\* C2: every unlock of a saved vault file derives its key from the parameter
\* record read out of that file, never from freshly generated defaults.
UnlockUsesStoredParams ==
    (unlock.impl # "none" /\ unlock.saved.saved) =>
        /\ unlock.derived
        /\ unlock.fileErr = NoErr
        /\ unlock.keyParams = unlock.fileParams

\* C3: a fresh session that unlocks the file with the password the saved
\* vault was created with obtains exactly the saved vault: the same entries
\* with the same fields, in the same order.
EndToEndRoundTrip ==
    (unlock.impl # "none" /\ unlock.fresh /\ unlock.saved.saved
        /\ unlock.pw = unlock.saved.pw) =>
        (unlock.err = NoErr /\ unlock.vault = unlock.saved.vault)

----------------------------------------------------------------------------
(* Properties of the TOTP engine *)

\* the secret of tCfg decodes, its algorithm is supported and its period is
\* at least one second
Generates ==
    /\ Base32Decode(ToUpper(tCfg.secret)).err = NoErr
    /\ tCfg.algorithm \in {"SHA1", "SHA256", "SHA512"}
    /\ tCfg.period >= 1

\* RFC 4226 5.3: the 31-bit number at the offset the last byte of the MAC names
RfcTruncate(mac, offset) ==
    ((mac[offset + 1] % 128) * 16777216) + (mac[offset + 2] * 65536)
    + (mac[offset + 3] * 256) + mac[offset + 4]

\* text padded with zeros to digits characters
RfcPad(digits, text) == Fill(digits - Len(text), 48) \o text

\* bin mod 10^digits as digits characters (bin is below 2^31, so below 10^10)
RfcDigits(digits, bin) ==
    RfcPad(digits, Itoa(IF digits >= 10 THEN bin ELSE bin % Pow10(digits)))

\* the HOTP code of a MAC
RfcHotp(digits, mac) == RfcDigits(digits, RfcTruncate(mac, mac[Len(mac)] % 16))

\* the RFC 6238 code of tCfg at Unix time t: the HOTP value of counter
\* floor(t / period), reduced modulo 10^digits and padded to digits characters
RfcCode(t) ==
    RfcHotp(tCfg.digits,
            Hmac(tCfg.algorithm, Base32Decode(ToUpper(tCfg.secret)).out,
                 U64(t \div tCfg.period)))

\* C9: for a secret that decodes, a period of at least one second, a digit
\* count of at least one, a supported algorithm and a time at or after the
\* epoch, GenerateCodeAt returns the RFC 6238 code, exactly digits characters
\* long, and period - (t mod period) seconds to expiry, which lies in
\* 1..period; the RFC test secret with SHA1, 6 digits and 30 s gives "287082"
\* and 1 s at time 59.
GenerateCodeAtMatchesRfc ==
    (tPhase \in {"generated", "validated"} /\ Generates /\ tCfg.digits >= 1 /\ tAt >= 0) =>
        /\ ~tGen.panic
        /\ tGen.err = NoErr
        /\ tGen.code = RfcCode(tAt)
        /\ Len(tGen.code) = tCfg.digits
        /\ tGen.expiresIn = tCfg.period - (tAt % tCfg.period)
        /\ tGen.expiresIn \in 1..tCfg.period
        /\ (/\ tCfg = [secret |-> RfcSecret, period |-> 30, digits |-> 6, algorithm |-> "SHA1"]
            /\ tAt = 59)
           => (tGen.code = <<50, 56, 55, 48, 56, 50>> /\ tGen.expiresIn = 1)

\* the codes generateHOTP gives for the counters n - 1, n and n + 1
WindowCodes(n) ==
    IF ~Generates THEN {}
    ELSE {generateHOTP(tCfg, Base32Decode(ToUpper(tCfg.secret)).out, U64(n + j), tConv).code :
             j \in {-1, 0, 1}}

\* C10: at a time at least one period after the epoch, ValidateAt returns
\* true exactly for the codes of the counters floor(t / period) - 1,
\* floor(t / period) and floor(t / period) + 1.
ValidateTolerance ==
    (tPhase = "validated" /\ tCfg.period >= 1 /\ tChk.at >= tCfg.period) =>
        /\ ~tChk.panic
        /\ tChk.ok <=> (tChk.code \in WindowCodes(tChk.at \div tCfg.period))

\* a code is validated one period after the time it was generated for, is
\* accepted, and is not the code of the window it is validated in
ValidateToleranceWitness ==
    /\ tPhase = "validated"
    /\ tChk.at = tAt + tCfg.period
    /\ tAt >= tCfg.period
    /\ tChk.code = tGen.code
    /\ tChk.ok
    /\ tCfg.digits >= 6
    /\ GenerateCodeAt(tCfg, tChk.at, tConv).code # tChk.code

----------------------------------------------------------------------------
(* Properties of the otpauth URI codec *)

\* C11: for every Config with a non-empty Secret, Issuer and Account, a period of
\* whole seconds, any digit count and one of SHA1, SHA256, SHA512,
\* ParseURI(ToURI(config)) succeeds and returns the same Secret, Issuer, Account,
\* Period, Digits and Algorithm.
UriRoundTrip ==
    (uPhase = "parsed" /\ uCfg # NoUriConfig) =>
        /\ uOut.err = NoErr
        /\ uOut.config = uCfg

\* a Config whose URI has been parsed back
UriRoundTripWitness ==
    /\ uPhase = "parsed"
    /\ uCfg # NoUriConfig
    /\ uCfg.period # DefaultPeriod
    /\ uCfg.digits # DefaultDigits
    /\ uCfg.algorithm # StrSHA1
    /\ uOut.err = NoErr
    /\ uOut.config = uCfg

\* an optional sign and then one decimal digit or more
IsIntegerText(s) ==
    /\ AtoiDigits(s) # <<>>
    /\ \A i \in 1..Len(AtoiDigits(s)) : IsDigit(AtoiDigits(s)[i])

\* what C12 names as a malformed URI
Malformed(r) ==
    \/ r.scheme # StrOtpauth
    \/ r.host # StrTotp
    \/ ~r.params[1].present
    \/ r.params[1].text = <<>>
    \/ (r.params[2].present /\ ~IsIntegerText(r.params[2].text))
    \/ (r.params[3].present /\ ~IsIntegerText(r.params[3].text))

\* C12: ParseURI returns an error and no Config whenever the scheme is not exactly
\* "otpauth", the host is not exactly "totp", the secret is missing or empty, or
\* period or digits is present but not an integer; otherwise it returns a Config in
\* which every optional parameter absent from the URI has its default.
ParseURIFailsClosed ==
    (uPhase = "parsed" /\ uRaw # NoRaw) =>
        IF Malformed(uRaw)
        THEN uOut.err # NoErr /\ uOut.config = NoUriConfig
        ELSE /\ uOut.err = NoErr
             /\ ~uRaw.params[2].present => uOut.config.period = DefaultPeriod
             /\ ~uRaw.params[3].present => uOut.config.digits = DefaultDigits
             /\ ~uRaw.params[4].present => uOut.config.algorithm = StrSHA1

----------------------------------------------------------------------------
(* Properties of the session *)

IsZeroed(b) == \A i \in 1..Len(b) : b[i] = 0

\* C13: every key buffer the session held and holds no more has been overwritten
\* with zeros, and once the application has quit (Ctrl+C, Ctrl+Q, Esc on the login
\* screen) it holds no master key: the reference is nil and the buffer is zeroed.
MasterKeyZeroed ==
    /\ \A i \in 1..Len(gHeap) : (gHeap[i].held /\ i # gKey) => IsZeroed(gHeap[i].bytes)
    /\ gApp.quit => gKey = 0

VaultOpen == gFront = "app" /\ gApp.currentScreen # "login" /\ gKey # 0 /\ ~gApp.quit
Locked == gApp.currentScreen = "login" /\ gKey = 0

\* C14: whenever a vault is open, the auto-lock timeout T is greater than 0 and T
\* has passed since the last key press, the vault is eventually locked: the app is
\* back on the login screen and the master key is cleared (or the user has quit).
AutoLockLiveness ==
    (VaultOpen /\ gTimeout > 0 /\ gClock - gLastInput >= gTimeout) ~> (Locked \/ gApp.quit)

\* C15: App.createVault is reached only when no vault file exists: an existing
\* vault file is never replaced by a fresh empty vault.
CreateOnlyWithoutFile == ~gOverwrote

\* C18: after a key press on the help screen, and after Esc on the settings screen,
\* the BackMsg it sends eventually brings the app back to the vault list (or the
\* user has quit).
BackNavigation ==
    (Running /\ gApp.currentScreen = "settings" /\ "BackMsg" \in gInbox)
        ~> (gApp.currentScreen = "list" \/ gApp.quit)

----------------------------------------------------------------------------
(* Properties of the entries of a vault *)

\* the identifiers of the entries, in order
EntryIDs(v) == [i \in 1..Len(v.entries) |-> v.entries[i].id]

\* C16: in every vault state reachable through NewEntry, AddEntry, RemoveEntry and
\* the save-entry flow, no two entries of the vault have the same ID.
UniqueEntryIDs ==
    ePhase = "open" =>
        \A i, j \in 1..Len(eVault.entries) :
            eVault.entries[i].id = eVault.entries[j].id => i = j

----------------------------------------------------------------------------
(* Properties of the clipboard manager *)

\* C17: with a timeout T > 0 the clipboard holds the text of the latest copy until
\* T has passed since that copy, whatever timers of earlier copies do; and after
\* Clear the clipboard is empty with no timer pending.
ClipboardFollowsLatestCopy ==
    /\ (bTimeout > 0 /\ bLast.op = "copy") => bText = bLast.text
    /\ (bTimeout > 0 /\ bLast.op = "timer") => bClock >= bLast.at + bTimeout
    /\ bLast.op \in {"clear", "timer"} => (bText = <<>> /\ bTimer = 0)

----------------------------------------------------------------------------
(* Properties of Load's validation *)

\* the four bytes of the length field of a file of at least 16 bytes
DeclaredLength(data) == SubSeq(data, 13, 16)

\* the declared parameter length, a uint32, exceeds the n bytes after the field
ExceedsRemaining(data) ==
    \/ DeclaredLength(data)[4] > 0
    \/ Low24(DeclaredLength(data)) > Len(data) - 16

\* the error the four checks, taken in order, ask for; NoErr where all pass
FirstViolation(data) ==
    IF Len(data) < 16 THEN ErrTooSmall
    ELSE IF SubSeq(data, 1, 8) # VaultHeader THEN ErrWrongHeader
    ELSE IF SubSeq(data, 9, 12) # <<1, 0, 0, 0>> THEN ErrVersion
    ELSE IF ExceedsRemaining(data) THEN ErrParamsShort
    ELSE NoErr

\* C19: Load checks length, magic, version and declared parameter length in
\* this order and returns the error of the first check that fails, for every
\* declared length up to 2^32 - 1; a file that fails a check never reaches
\* crypto.Decrypt, and a file that passes all four gets none of the four errors
LoadValidationOrder ==
    lPhase = "loaded" =>
        /\ FirstViolation(lFile) # NoErr =>
              (lOut.err = FirstViolation(lFile) /\ ~lOut.decrypt)
        /\ FirstViolation(lFile) = NoErr =>
              lOut.err \notin {ErrTooSmall, ErrWrongHeader, ErrVersion, ErrParamsShort,
                               ErrSliceBounds}

\* the same on the builds with a 64-bit int
LoadValidationOrder64 == lInt = 64 => LoadValidationOrder

----------------------------------------------------------------------------
(* Properties of the saves that reuse the session key *)

\* the callers of Save that reuse the key of the session
ReuseCallers == {"appSaveEntry", "svcSave"}

----------------------------------------------------------------------------
(* Properties of the temporary file *)

\* Save returns from its rename step with error e
SaveReturns(e) == pc = "rename" /\ pc' = "idle" /\ lastErr' = e

\* C21: when Save returns nil and when it returns the rename error, no file is
\* left at path + ".tmp"; a failed rename leaves the file at path as it was
NoStrayTemp ==
    [][/\ (SaveReturns(NoErr) \/ SaveReturns(ErrRename)) => ~disk'.tmp.exists
       /\ SaveReturns(ErrRename) => disk'.path = disk.path
      ]_vars

\* the same where os.Remove does what it is asked to
NoStrayTempRemoved ==
    [][/\ ((SaveReturns(NoErr) \/ SaveReturns(ErrRename)) /\ ~SaveRemoveFail) =>
             ~disk'.tmp.exists
       /\ SaveReturns(ErrRename) => disk'.path = disk.path
      ]_vars

----------------------------------------------------------------------------
(* Properties of the plaintext buffers *)

\* C22: whenever Save has returned, with nil or with any error, its buffer of
\* the serialized vault holds only zeros, and whenever Load has returned after
\* a decryption that succeeded, its decrypted buffer holds only zeros
PlaintextZeroed ==
    /\ (zPhase \in {"saved", "loaded"} /\ zSave.made) => IsZeroed(zSave.bytes)
    /\ (zPhase = "loaded" /\ zLoad.made) => IsZeroed(zLoad.bytes)

\* the same for every return but the one for a failed Encrypt
PlaintextZeroedAfterEncrypt ==
    /\ (zPhase \in {"saved", "loaded"} /\ zSave.made /\ zSave.err # ErrEncrypt) =>
          IsZeroed(zSave.bytes)
    /\ (zPhase = "loaded" /\ zLoad.made) => IsZeroed(zLoad.bytes)

----------------------------------------------------------------------------
(* Properties of the unlock of a foreign file *)

\* C23: whatever parameter record a file with a valid header carries, the key
\* unlockVault hands to Decrypt is 32 bytes long and the attempt ends in
\* success, in the decryption error or in a corruption error, never in the
\* invalid-key-size error
KeySizeNeverSurfaces ==
    xPhase = "done" =>
        /\ ~xOut.panic
        /\ xOut.keyLen \in {-1, KeySize}
        /\ xOut.err # ErrInvalidKeySize

\* the same for the files whose record carries key_length 32 and an iteration
\* count of 1 or more
KeySizeNeverSurfaces32 ==
    (/\ LoadParams(xFile).err = NoErr
     /\ LoadParams(xFile).params.keyLength = KeySize
     /\ ~IDKeyPanics(LoadParams(xFile).params)) => KeySizeNeverSurfaces

----------------------------------------------------------------------------
(* Properties of the auto-locker *)

\* C24: Stop may be called any number of times, before Start, after Start and
\* after a fire, and leaves the locker stopped with its ticker stopped; once a
\* Stop has returned, no command that Start returned before that Stop invokes
\* the lock callback
StopIsFinal ==
    /\ \A i \in 1..Len(wCmds) : wCmds[i].pc = "fired" => ~wCmds[i].late
    /\ (wClock >= 0 /\ ~wRunning /\ wTicker # 0) => ~wTickers[wTicker].active

----------------------------------------------------------------------------
(* Properties of form validation *)

\* what the claim calls a validation failure of the last submit: an empty entry
\* name; a confirmation other than the password; a password of fewer than 8
\* characters
InvalidSubmit ==
    \/ fBefore.form = "editor" /\ fBefore.a = <<>>
    \/ fBefore.form = "login" /\ fBefore.a # fBefore.b
    \/ fBefore.form = "login" /\ Len(fBefore.a) < MinPasswordLen

\* C25: a submit that fails validation emits neither SaveEntryMsg nor UnlockMsg
\* and leaves the vault in memory, the edited entry and the vault file as they
\* were, with the user on the same screen
ValidationChangesNothing ==
    InvalidSubmit =>
        /\ fMsg = "none"
        /\ fEntry = fBefore.entry
        /\ fVault = fBefore.vault
        /\ fFile = fBefore.file
        /\ fScreen = fBefore.form

\* the same with the length of the password counted in bytes
InvalidSubmitBytes ==
    \/ fBefore.form = "editor" /\ fBefore.a = <<>>
    \/ fBefore.form = "login" /\ fBefore.a # fBefore.b
    \/ fBefore.form = "login" /\ ByteLen(fBefore.a) < MinPasswordLen

ValidationChangesNothingBytes ==
    InvalidSubmitBytes =>
        /\ fMsg = "none"
        /\ fEntry = fBefore.entry
        /\ fVault = fBefore.vault
        /\ fFile = fBefore.file
        /\ fScreen = fBefore.form

----------------------------------------------------------------------------
(* Properties of the vault's timestamps *)

\* the four calls that change the structure of the vault
Structural == {"AddEntry", "RemoveEntry", "AddFolder", "RemoveFolder"}

\* every entry of the vault that the vault held before the last call is as it was
EntriesUntouched ==
    \A i \in 1..Len(mVault.entries) :
        \A j \in 1..Len(mLast.before.entries) :
            mVault.entries[i].id = mLast.before.entries[j].id =>
                mVault.entries[i] = mLast.before.entries[j]

\* the last call, a structural one that succeeded, set UpdatedAt to the time of
\* the call and left CreatedAt and the entries' own timestamps alone
StampSet ==
    (mLast.op \in Structural /\ mLast.ok) =>
        /\ mVault.updatedAt = mLast.at
        /\ mVault.createdAt = mLast.before.createdAt
        /\ EntriesUntouched

\* a removal of an ID that is not there left the whole vault as it was
MissLeavesVault ==
    (mLast.op \in {"RemoveEntry", "RemoveFolder"} /\ ~mLast.ok) => mVault = mLast.before

\* UpdateAccessTime changed that entry's AccessedAt and nothing else
AccessOnly ==
    mLast.op = "UpdateAccessTime" =>
        /\ mVault.entries[mLast.i].accessedAt = mLast.at
        /\ mVault = [mLast.before EXCEPT !.entries[mLast.i].accessedAt = mLast.at]

\* C26: a successful AddEntry, RemoveEntry, AddFolder or RemoveFolder sets
\* UpdatedAt to the time of the call, which is never earlier than the previous
\* UpdatedAt or than CreatedAt, and leaves every entry's timestamps unchanged;
\* a removal of an absent ID leaves the vault unchanged; UpdateAccessTime
\* changes only that entry's AccessedAt
VaultTimestamps ==
    /\ StampSet
    /\ (mLast.op \in Structural /\ mLast.ok) =>
          /\ mVault.updatedAt >= mLast.before.updatedAt
          /\ mVault.updatedAt >= mVault.createdAt
    /\ MissLeavesVault
    /\ AccessOnly

\* the claim without the order of the timestamps
VaultTimestampsUnordered == StampSet /\ MissLeavesVault /\ AccessOnly

\* ---- C27 ----
\* a call of the service returns on this step
SvcReturns == impl = "svc" /\ pc' = "idle" /\ impl' = "svc"

\* SaveVault is called on this step and returns ErrVaultLocked, the vault file and
\* its temp file left as they were and no save begun
SaveVaultRefused ==
    /\ lastErr' = ErrVaultLocked
    /\ disk' = disk
    /\ pc' = "idle"
    /\ job' = NoJob

\* C27: from the return of LockVault until the next CreateVault or UnlockVault
\* that returns nil, the service holds no master key between calls, SaveVault
\* returns ErrVaultLocked without writing the vault file, a failed UnlockVault
\* leaves the service locked, and a further LockVault changes nothing
LockedServiceNeverWrites ==
    [][(locked /\ SvcReturns /\ locked')
           => /\ masterKey' = NilKey
              /\ SvcSaveVault => SaveVaultRefused
              /\ SvcLockVault => vault' = vault /\ disk' = disk]_vars

\* the same for every call but a CreateVault whose Save fails, taken from a
\* service that holds no key: the part of C27 that holds
LockedUntilCreateCalled ==
    [][(locked /\ masterKey = NilKey /\ SvcReturns /\ locked' /\ job.caller # "svcCreate")
           => /\ masterKey' = NilKey
              /\ (SvcSaveVault => SaveVaultRefused)
              /\ (SvcLockVault => vault' = vault /\ disk' = disk)]_vars

\* ---- C28 ----
\* unlockVault is called on this step and fails
UnlockFails == vTries' = vTries + 1 /\ ~vLast'.ok

\* unlockVault is called on this step, after an unlock that failed, with the
\* right password on a vault file that can be read
UnlockRetried == vTries > 0 /\ vTries' = vTries + 1 /\ vLast'.pw = RightPassword /\ vFile = "sealed"

\* C28: after a failed unlockVault the app holds no master key and no vault and
\* stays on the login screen, and a later unlock with the right password
\* succeeds and makes the vault list the rendered view
FailedUnlockRecoverable ==
    [][/\ UnlockFails => /\ vApp'.masterKey = NilKey
                         /\ ~vApp'.vault
                         /\ vApp'.currentScreen = "login"
       /\ UnlockRetried => vLast'.ok /\ View(vApp') = "list"]_vars

\* the same with the current screen in place of the rendered view: the part of
\* C28 that holds
FailedUnlockRecoverableScreen ==
    [][/\ UnlockFails => /\ vApp'.masterKey = NilKey
                         /\ ~vApp'.vault
                         /\ vApp'.currentScreen = "login"
       /\ UnlockRetried => /\ vLast'.ok
                           /\ vApp'.currentScreen = "list"
                           /\ vApp'.masterKey # NilKey
                           /\ vApp'.vault]_vars

\* ---- C29 ----
\* the detail screen is the current screen, for an entry with a TOTP secret
DetailWithTotp == dClock >= 0 /\ dApp.currentScreen = "detail" /\ dSecret

\* a tick command is pending, and once every tickMsg of this second has been
\* handled the code shown was computed no more than a second ago
DisplayLive ==
    /\ dPending + dDue > 0
    /\ dDue = 0 => dApp.totpAt >= dClock - 1

\* C29: whenever the entry detail screen is the current screen for an entry with
\* a TOTP secret, a tick command is pending and the displayed code is recomputed
\* at every one-second tick, after every navigation sequence
TotpDisplayLive == DetailWithTotp => DisplayLive

\* the same while no tickMsg has reached the editor screen: the part of C29 that holds
TotpDisplayLiveNoEditorTick == (DetailWithTotp /\ dLost = 0) => DisplayLive

\* ---- C30 ----
\* ParseURI has returned a Config and no error
Parsed == uPhase \in {"parsed", "used"} /\ uOut.err = NoErr

\* C30: every Config ParseURI returns without error has Period >= 1 second and
\* Digits >= 1, and GenerateCodeAt and ValidateAt on it never divide by zero or
\* take a remainder modulo zero
ParsedConfigUsable ==
    /\ Parsed => uOut.config.period >= 1 /\ uOut.config.digits >= 1
    /\ uPhase = "used" => ~uUse.panic

\* a parsed Config with Period >= 1 and Digits >= 0 never panics in
\* GenerateCodeAt or ValidateAt, whatever the build does with an out-of-range
\* conversion of 10^Digits below 10^19: the part of C30 that holds
UsableConfigNeverPanics ==
    (uPhase = "used" /\ uOut.config.period >= 1 /\ uOut.config.digits >= 0) => ~uUse.panic

====
